---- MODULE Spec2Model ----
(***************************************************************************)
(* Model of the document triage and row/column resolution engine of        *)
(* financial-converter (src/parser_core.py).                               *)
(*                                                                         *)
(*   Spec        parse_html_table_to_json: per-field row resolution        *)
(*               (direct tr_number lookup, fuzzy label fallback) and       *)
(*               column-layout value extraction.                           *)
(*   SpecSelect  _select_best_table: heuristic scoring of table files.     *)
(*   SpecPage    find_target_page: the scan of the page texts for the      *)
(*               heading of the standalone results.                        *)
(*   SpecProcess process_pdf_document from the converted document on, for  *)
(*               two requests that write to the same output directory.     *)
(*                                                                         *)
(* Text is modelled as a sequence of one-character strings, so that        *)
(* lower-casing, stripping, regular-expression substitution and substring  *)
(* search are computed as Python computes them.                            *)
(***************************************************************************)
EXTENDS Integers, Sequences, FiniteSets, TLC

VARIABLES
    \* ---- parse_html_table_to_json ----
    company_name,         \* the company_name argument
    config,               \* the config argument: company key -> company config, "column_layouts" -> layouts
    html,                 \* the parsed HTML file: [has_table, rows]
    use_fuzzy_matching,   \* the use_fuzzy_matching argument
    parse_pc,             \* "idle" | "start" | "loop" | "returned" | "returned_none" | "raised"
    rows,                 \* local variable rows = table.find_all('tr'); a row is a sequence of cell texts
    item_ix,              \* number of financial_data items already processed by the for loop
    column_layout,        \* the local variable column_layout (a layout name of ColumnLayouts)
    financial_data,       \* result["financial_data"]
    extraction_method,    \* result["extraction_method"]
    matched_rows_count,   \* local counter of direct matches
    fuzzy_matched_count,  \* local counter of fuzzy matches
    resolution,           \* history: per processed item, [strategy, row] of the branch taken
    \* ---- _select_best_table ----
    tables,               \* the exported table files (names of CandidateFiles), one per table
    select_pc,            \* "idle" | "start" | "loop" | "returned" | "returned_none"
    table_ix,             \* number of candidates already visited by the for loop
    best_score,           \* local variable best_score
    best_index,           \* local variable best_index
    scored,               \* history: per visited candidate, [ok, score]; ok is FALSE when it was skipped
    \* ---- find_target_page ----
    pages,                \* reader.pages: the pages of the PDF (names of PageFiles)
    page_pc,              \* "idle" | "loop" | "returned"
    page_index,           \* number of pages the for loop has gone past
    target_page,          \* the returned value: [found, index]; found is FALSE for None
    page_rule,            \* history: per visited page, the branch taken ("explicit" | "generic" | "skipped" | "none")
    \* ---- process_pdf_document ----
    files,                \* the HTML table files of the output directory: table number -> content
    proc,                 \* per request, the locals of its process_pdf_document call
    \* ---- FinancialExcelGenerator (excel_generator.py) ----
    data_map,             \* self.data_map: key -> the item's values (a JSON value)
    gen_company_name,     \* self.company_name
    generated,            \* the last generate_excel / generate_csv call: [op, result]
    get_args,             \* the arguments of the last _get_value call: [key, period]
    get_pc,               \* "idle" | "returned" | "raised"
    get_result,           \* the number _get_value returned, or the error it raised
    \* ---- POST /api/update-financial-data (app.py) ----
    upd_request,          \* request.get_json(): the body of the request
    upd_pc,               \* "idle" | "received" | "open" | "dump" | "returned"
    upd_response,         \* the response: [success, status]
    json_store,           \* the JSON files under the output folder: path -> data written
    \* ---- FileManager (excel_generator.py) ----
    metadata,             \* self.metadata: file id -> metadata entry
    order,                \* the keys of self.metadata in the order of the dict
    stored,               \* the file ids whose stored file exists in storage_dir
    get_calls,            \* history: file id -> number of get_file calls that found it
    deleted_entries,      \* the entries deleted from self.metadata: file id -> download_count
    fm_call,              \* per thread, the call it is in: [op, pc, file_id, ...]
    fm_result             \* the call that ended last: [op, file_id, result, ...]

parse_vars == <<company_name, config, html, use_fuzzy_matching, parse_pc, rows, item_ix, column_layout,
                financial_data, extraction_method, matched_rows_count, fuzzy_matched_count,
                resolution>>
select_vars == <<tables, select_pc, table_ix, best_score, best_index, scored>>
page_vars == <<pages, page_pc, page_index, target_page, page_rule>>
proc_vars == <<files, proc>>
core_vars == <<parse_vars, select_vars, page_vars, proc_vars>>
excel_vars == <<data_map, gen_company_name, generated, get_args, get_pc, get_result>>
update_vars == <<upd_request, upd_pc, upd_response, json_store>>
fm_vars == <<metadata, order, stored, get_calls, deleted_entries, fm_call, fm_result>>
ext_vars == <<excel_vars, update_vars, fm_vars>>
vars == <<core_vars, ext_vars>>

----------------------------------------------------------------------------
(* Characters and Python string primitives                                 *)

\* Characters are one-character strings. A character that cannot be written
\* in a string of this module is written as its code point, "U+00A0" for the
\* no-break space. The alphabet is ASCII, the white space of Python, the
\* Latin-1 supplement (U+00A0 to U+00FF) and Cyrillic (U+0400 to U+045F).

\* the cased letters of the alphabet: the i-th of LowerChars is str.lower()
\* of the i-th of UpperChars, and the other way round for str.upper()
UpperChars == <<"A","B","C","D","E","F","G","H","I","J","K","L","M","N","O","P","Q","R","S","T",
                "U","V","W","X","Y","Z","U+00C0","U+00C1","U+00C2","U+00C3","U+00C4","U+00C5",
                "U+00C6","U+00C7","U+00C8","U+00C9","U+00CA","U+00CB","U+00CC","U+00CD",
                "U+00CE","U+00CF","U+00D0","U+00D1","U+00D2","U+00D3","U+00D4","U+00D5",
                "U+00D6","U+00D8","U+00D9","U+00DA","U+00DB","U+00DC","U+00DD","U+00DE",
                "U+0400","U+0401","U+0402","U+0403","U+0404","U+0405","U+0406","U+0407",
                "U+0408","U+0409","U+040A","U+040B","U+040C","U+040D","U+040E","U+040F",
                "U+0410","U+0411","U+0412","U+0413","U+0414","U+0415","U+0416","U+0417",
                "U+0418","U+0419","U+041A","U+041B","U+041C","U+041D","U+041E","U+041F",
                "U+0420","U+0421","U+0422","U+0423","U+0424","U+0425","U+0426","U+0427",
                "U+0428","U+0429","U+042A","U+042B","U+042C","U+042D","U+042E","U+042F">>
LowerChars == <<"a","b","c","d","e","f","g","h","i","j","k","l","m","n","o","p","q","r","s","t",
                "u","v","w","x","y","z","U+00E0","U+00E1","U+00E2","U+00E3","U+00E4","U+00E5",
                "U+00E6","U+00E7","U+00E8","U+00E9","U+00EA","U+00EB","U+00EC","U+00ED",
                "U+00EE","U+00EF","U+00F0","U+00F1","U+00F2","U+00F3","U+00F4","U+00F5",
                "U+00F6","U+00F8","U+00F9","U+00FA","U+00FB","U+00FC","U+00FD","U+00FE",
                "U+0450","U+0451","U+0452","U+0453","U+0454","U+0455","U+0456","U+0457",
                "U+0458","U+0459","U+045A","U+045B","U+045C","U+045D","U+045E","U+045F",
                "U+0430","U+0431","U+0432","U+0433","U+0434","U+0435","U+0436","U+0437",
                "U+0438","U+0439","U+043A","U+043B","U+043C","U+043D","U+043E","U+043F",
                "U+0440","U+0441","U+0442","U+0443","U+0444","U+0445","U+0446","U+0447",
                "U+0448","U+0449","U+044A","U+044B","U+044C","U+044D","U+044E","U+044F">>
DigitChars == {"0","1","2","3","4","5","6","7","8","9"}

\* the characters str.isspace, str.strip and the class \s of a str pattern
\* take for white space
SpaceChars == {"\t","\n","U+000B","\f","\r","U+001C","U+001D","U+001E","U+001F"," ","U+0085",
               "U+00A0","U+1680","U+2000","U+2001","U+2002","U+2003","U+2004","U+2005","U+2006",
               "U+2007","U+2008","U+2009","U+200A","U+2028","U+2029","U+202F","U+205F","U+3000"}

\* letters without case and numerals of the alphabet that the class \w of a
\* str pattern matches: feminine and masculine ordinal, micro sign, sharp s,
\* y with diaeresis, superscript digits and vulgar fractions
OtherWordChars == {"U+00AA","U+00B2","U+00B3","U+00B5","U+00B9","U+00BA","U+00BC","U+00BD",
                   "U+00BE","U+00DF","U+00FF"}

WordChars == {UpperChars[i] : i \in DOMAIN UpperChars} \cup {LowerChars[i] : i \in DOMAIN LowerChars}
                 \cup DigitChars \cup {"_"} \cup OtherWordChars

\* upper-case letter -> its lower-case letter
LowerOf == [c \in {UpperChars[i] : i \in DOMAIN UpperChars} |->
               LowerChars[CHOOSE i \in DOMAIN UpperChars : UpperChars[i] = c]]

\* str.isspace for one character
IsSpace(c) == c \in SpaceChars

\* the regular-expression class \w for one character
IsWordChar(c) == c \in WordChars

LowerChar(c) == IF c \in DOMAIN LowerOf THEN LowerOf[c] ELSE c

\* str.lower()
Lower(s) == [i \in DOMAIN s |-> LowerChar(s[i])]

\* str.strip(): leading and trailing whitespace removed
Strip(s) ==
    LET keep == {i \in DOMAIN s : ~IsSpace(s[i])}
        lo == CHOOSE i \in keep : \A j \in keep : i <= j
        hi == CHOOSE i \in keep : \A j \in keep : i >= j
    IN IF keep = {} THEN <<>> ELSE SubSeq(s, lo, hi)

\* needle in hay  (Python substring test)
Contains(hay, needle) ==
    \E i \in 0..(Len(hay) - Len(needle)) : \A j \in 1..Len(needle) : hay[i + j] = needle[j]

\* s.startswith(p)
StartsWith(s, p) == Len(p) <= Len(s) /\ \A j \in 1..Len(p) : s[j] = p[j]

\* s[:n]
Slice(s, n) == SubSeq(s, 1, IF Len(s) < n THEN Len(s) ELSE n)

\* dict.get(k, default)
DictGet(d, k, default) == IF k \in DOMAIN d THEN d[k] ELSE default

RECURSIVE JoinWith(_, _)
\* sep.join(parts)
JoinWith(parts, sep) ==
    IF parts = <<>> THEN <<>>
    ELSE IF Len(parts) = 1 THEN parts[1]
    ELSE parts[1] \o sep \o JoinWith(Tail(parts), sep)

----------------------------------------------------------------------------
(* BeautifulSoup text extraction                                           *)

\* cell.get_text(strip=True) of a cell holding one text node
CellText(cell) == Strip(cell)

\* row.get_text(separator=' ', strip=True): every text node stripped, the
\* empty ones dropped, the rest joined with one space
RowText(row) ==
    JoinWith(SelectSeq([i \in DOMAIN row |-> Strip(row[i])], LAMBDA t : t # <<>>), <<" ">>)

----------------------------------------------------------------------------
(* _find_matching_row                                                      *)

\* label_normalized[:15]
PrefixLen == 15

\* mutant of NormalizeText: the pattern \W, which removes whitespace as well
NormalizeText_DropSpace(s) == SelectSeq(s, LAMBDA c : IsWordChar(c))

\* re.sub(r'[^\w\s]', '', s): every character that is neither a word
\* character nor whitespace is removed
NormalizeText(s) == SelectSeq(s, LAMBDA c : IsWordChar(c) \/ IsSpace(c))

\* row_normalized of the loop body
RowNormalized(row) == NormalizeText(Lower(RowText(row)))

\* label_normalized of the loop body
LabelNormalized(label) == NormalizeText(Lower(label))

\* the match condition of line 85
LabelMatches(row, label) ==
    \/ Contains(RowNormalized(row), LabelNormalized(label))
    \/ StartsWith(RowNormalized(row), Slice(LabelNormalized(label), PrefixLen))

RECURSIVE FindMatchingRowFrom(_, _, _)
\* the outer loop over enumerate(rows) from 0-based index i on; the inner
\* loop over labels returns at the first label that matches
FindMatchingRowFrom(rs, labels, i) ==
    IF i >= Len(rs) THEN -1
    ELSE IF \E j \in DOMAIN labels : LabelMatches(rs[i + 1], labels[j]) THEN i
    ELSE FindMatchingRowFrom(rs, labels, i + 1)

\* _find_matching_row(rows, labels): the 0-based row_index, -1 when no row matches
FindMatchingRow(rs, labels) == FindMatchingRowFrom(rs, labels, 0)

----------------------------------------------------------------------------
(* Texts of the modelled documents                                         *)

S_Particulars == <<"P","a","r","t","i","c","u","l","a","r","s">>
S_SaleOfGoods == <<"S","a","l","e"," ","o","f"," ","g","o","o","d","s">>
S_SaleOfGoodsIncome == <<"S","a","l","e"," ","o","f"," ","G","o","o","d","s"," ","/"," ","I","n","c","o","m","e"," ","f","r","o","m"," ","o","p","e","r","a","t","i","o","n","s">>
S_ProfitBeforeTax == <<"P","r","o","f","i","t"," ","b","e","f","o","r","e"," ","t","a","x">>
S_ProfitBeforeTx == <<"P","r","o","f","i","t"," ","b","e","f","o","r","e"," ","t","U+0430","x"," ","(","O","C","R",")">>
S_NetProfit == <<"N","e","t"," ","p","r","o","f","i","t">>
S_NetProfitWide == <<"N","e","t"," ","U+00A0","P","r","o","f","i","t">>
S_V4357 == <<" ","4",",","3","5","7",".","6","4"," ">>
S_V4218 == <<"4",",","2","1","8",".","9","0">>
S_VNeg == <<"(","2","1","8",".","9","0",")">>
S_V12 == <<"1","2",".","5">>
S_Dash == <<"-">>
S_Blank == <<" ","U+00A0">>
S_One == <<"1">>
S_Date1 == <<"3","0",".","0","6",".","2","0","2","5">>
S_Date2 == <<"3","1",".","0","3",".","2","0","2","5">>

\* a statement table: serial number, label, period columns
TableA ==
    << << <<>>, S_Particulars, S_Date1, S_Date2 >>,
       << S_One, S_SaleOfGoodsIncome, S_V4357, S_V4218 >>,
       << <<>>, S_NetProfitWide, S_VNeg >>,
       << S_One, S_Blank, S_V12, S_Dash, S_One >> >>

\* a table without serial-number column, first label garbled by OCR (a
\* Cyrillic letter for the Latin a)
TableB ==
    << << S_ProfitBeforeTx, S_V12 >>,
       << S_NetProfit, S_VNeg, S_V4218 >>,
       << S_ProfitBeforeTax, S_V4357 >> >>

TableC ==
    << << <<>>, S_NetProfit, S_V12 >>,
       << <<>>, S_ProfitBeforeTax, S_V4218, S_VNeg, S_One >> >>

TablePool == {TableA, TableB, TableC}

----------------------------------------------------------------------------
(* Configuration (config.json as consumed by parse_html_table_to_json)     *)

\* config["column_layouts"]: layout name -> {period label -> 1-based column
\* ordinal, "label" -> ordinal of the label column}
ColumnLayouts ==
    [ standard |-> ("label" :> 2) @@ ("30.06.2025" :> 3) @@ ("31.03.2025" :> 4),
      alt      |-> ("label" :> 1) @@ ("30.06.2025" :> 2) @@ ("FY2025" :> 5),
      bare     |-> ("30.06.2025" :> 1) ]

\* the company_mapping dict of lines 106-114
CompanyMapping ==
    ("BRITANNIA" :> "britannia") @@ ("COLGATE" :> "colgate") @@ ("DABUR" :> "dabur") @@
    ("HUL" :> "hul") @@ ("ITC" :> "itc") @@ ("NESTLE" :> "nestle") @@ ("P&G" :> "pg")

\* field keys, unique within a company configuration: the i-th item has the
\* i-th key; load_config (lines 478-484) checks nothing, so the key "" and
\* the label "" are configurations the parser can be given
FieldKeys ==
    << <<"s","a","l","e","_","o","f","_","g","o","o","d","s">>,
       <<>>,
       <<"n","e","t","_","p","r","o","f","i","t">>,
       <<"p","b","t">> >>

\* the "labels" lists of the items: none, [""], one label, two labels
LabelLists == { <<>>, << <<>> >>, <<S_SaleOfGoods>>, <<S_ProfitBeforeTax, S_NetProfit>> }

\* well-formed item configs without their key: tr_number optional, labels
\* present, column_layout override optional and defined
WellFormedItems ==
    { ("labels" :> ls) @@ tr :
        ls \in LabelLists,
        tr \in { <<>> , "tr_number" :> 1, "tr_number" :> 3 } }
    \cup { ("labels" :> <<S_SaleOfGoods>>) @@ ("tr_number" :> 99),
           ("labels" :> <<S_SaleOfGoods>>) @@ ("tr_number" :> 1) @@ ("column_layout" :> "alt"),
           ("labels" :> <<S_ProfitBeforeTax, S_NetProfit>>) @@ ("column_layout" :> "alt"),
           ("labels" :> <<>>) @@ ("tr_number" :> 3) @@ ("column_layout" :> "alt") }

\* item configs that violate the schema: no "labels" entry, or an override
\* naming a layout that config["column_layouts"] does not define
MalformedItems ==
    { "tr_number" :> 1,
      ("tr_number" :> 3) @@ ("column_layout" :> "alt"),
      ("labels" :> <<S_SaleOfGoods>>) @@ ("tr_number" :> 1) @@ ("column_layout" :> "missing") }

ItemPool == WellFormedItems \cup MalformedItems

\* number of financial_data items of a company configuration
MaxFields == 2

\* company_config["financial_data"] lists: items drawn from the pool, keyed by position
FinancialDataLists ==
    UNION { { [i \in 1..n |-> ("key" :> FieldKeys[i]) @@ f[i]] : f \in [1..n -> ItemPool] }
            : n \in 0..MaxFields }

\* company configs: "column_layout" optional (default "standard")
CompanyConfigs ==
    { ("financial_data" :> fd) @@ cl :
        fd \in FinancialDataLists,
        cl \in { <<>>, "column_layout" :> "bare" } }

----------------------------------------------------------------------------
(* parse_html_table_to_json: the body of the loop over financial_data      *)

\* Python truthiness of d.get(k) for a string entry: None and "" are false
TruthyStr(d, k) == k \in DOMAIN d /\ d[k] # ""

\* Python truthiness of d.get(k) for a dict entry: None and {} are false
TruthyDict(d, k) == k \in DOMAIN d /\ DOMAIN d[k] # {}

\* mutant of AssignColumnLayout: the else branch of lines 164-166 missing, so
\* an override stays in force for the items after it
AssignColumnLayout_Sticky(cur, item, cc) ==
    IF TruthyStr(item, "column_layout")
    THEN item["column_layout"]
    ELSE cur

\* lines 160-166: the value assigned to column_layout (as a layout name) for
\* an item; cur is the value the variable holds before the assignment
AssignColumnLayout(cur, item, cc) ==
    IF TruthyStr(item, "column_layout")
    THEN item["column_layout"]
    ELSE DictGet(cc, "column_layout", "standard")

\* lines 157-166: the KeyError cases of an item (no "key" or "labels" entry,
\* layout name not defined in config["column_layouts"])
ItemRaises(cur, item, cc, layouts) ==
    \/ "key" \notin DOMAIN item
    \/ "labels" \notin DOMAIN item
    \/ AssignColumnLayout(cur, item, cc) \notin DOMAIN layouts

\* mutant of ResolveRow: label matching tried before tr_number
ResolveRow_FuzzyFirst(rs, item, fuzzy) ==
    LET tr_number == DictGet(item, "tr_number", 0)
        labels == item["labels"]
        row_index == FindMatchingRow(rs, labels)
    IN IF fuzzy /\ labels # <<>> /\ row_index # -1
       THEN [strategy |-> "fuzzy", row |-> row_index + 1]
       ELSE IF tr_number > 0 /\ tr_number <= Len(rs)
       THEN [strategy |-> "direct", row |-> tr_number]
       ELSE [strategy |-> "none", row |-> 0]

\* mutant of ResolveRow: the use_fuzzy_matching flag not consulted
ResolveRow_IgnoreFlag(rs, item, fuzzy) ==
    LET tr_number == DictGet(item, "tr_number", 0)
        labels == item["labels"]
    IN IF tr_number > 0 /\ tr_number <= Len(rs)
       THEN [strategy |-> "direct", row |-> tr_number]
       ELSE IF labels # <<>>
       THEN LET row_index == FindMatchingRow(rs, labels)
            IN IF row_index # -1
               THEN [strategy |-> "fuzzy", row |-> row_index + 1]
               ELSE [strategy |-> "none", row |-> 0]
       ELSE [strategy |-> "none", row |-> 0]

\* lines 168-181: the branch taken and the 1-based number of the matched row
\* (strategy "none", row 0 when matched_row stays None)
ResolveRow(rs, item, fuzzy) ==
    LET tr_number == DictGet(item, "tr_number", 0)
        labels == item["labels"]
    IN IF tr_number > 0 /\ tr_number <= Len(rs)
       THEN [strategy |-> "direct", row |-> tr_number]
       ELSE IF fuzzy /\ labels # <<>>
       THEN LET row_index == FindMatchingRow(rs, labels)
            IN IF row_index # -1
               THEN [strategy |-> "fuzzy", row |-> row_index + 1]
               ELSE [strategy |-> "none", row |-> 0]
       ELSE [strategy |-> "none", row |-> 0]

\* lines 188-196: the display label of a matched row
Particular(cells, layout, labels, key) ==
    LET label_col_index == DictGet(layout, "label", 2) - 1
        particular == IF label_col_index < Len(cells)
                      THEN CellText(cells[label_col_index + 1])
                      ELSE <<>>
    IN IF particular # <<>> THEN particular
       ELSE IF labels # <<>> THEN labels[1]
       ELSE key

\* mutant of Values: the column ordinal used as a 0-based index
Values_ZeroBased(cells, layout) ==
    [date_key \in DOMAIN layout \ {"label"} |->
        IF layout[date_key] < Len(cells)
        THEN CellText(cells[layout[date_key] + 1])
        ELSE <<>>]

\* lines 198-207: the values dict of a matched row
Values(cells, layout) ==
    [date_key \in DOMAIN layout \ {"label"} |->
        IF layout[date_key] <= Len(cells)
        THEN CellText(cells[layout[date_key]])
        ELSE <<>>]

\* mutant of AppendIfMatched: an unmatched item leaves an empty entry behind
AppendIfMatched_Placeholder(fd, res, entry) ==
    IF res.strategy # "none"
    THEN Append(fd, entry)
    ELSE Append(fd, [particular |-> <<>>, key |-> <<>>, values |-> <<>>])

\* mutant of AppendIfMatched: the entry is put in front of the list
AppendIfMatched_Prepend(fd, res, entry) ==
    IF res.strategy # "none" THEN <<entry>> \o fd ELSE fd

\* lines 184, 210-216: the entry is appended only when a row was matched
AppendIfMatched(fd, res, entry) ==
    IF res.strategy # "none" THEN Append(fd, entry) ELSE fd

\* lines 210-214: the entry appended for a matched row
Entry(cells, layout, item) ==
    [particular |-> Particular(cells, layout, item["labels"], item["key"]),
     key |-> item["key"],
     values |-> Values(cells, layout)]

----------------------------------------------------------------------------
(* parse_html_table_to_json: state machine                                 *)

\* lines 116-124, 138-140: the early returns of None
ReturnsNone(cname, cfg, doc) ==
    \/ cname \notin DOMAIN CompanyMapping
    \/ ~TruthyDict(cfg, CompanyMapping[cname])
    \/ ~doc.has_table

\* lines 127-128: KeyError when the company's layout name is not defined
BeginRaises(cname, cfg) ==
    /\ cname \in DOMAIN CompanyMapping
    /\ TruthyDict(cfg, CompanyMapping[cname])
    /\ \/ "column_layouts" \notin DOMAIN cfg
       \/ DictGet(cfg[CompanyMapping[cname]], "column_layout", "standard")
              \notin DOMAIN cfg["column_layouts"]

\* the company config the loop reads
company_config == config[CompanyMapping[company_name]]

ParseInputs == <<company_name, config, html, use_fuzzy_matching>>

\* lines 105-153: lookups, early returns and the initial result structure
ParseBegin ==
    /\ parse_pc = "start"
    /\ IF BeginRaises(company_name, config)
       THEN /\ parse_pc' = "raised"
            /\ UNCHANGED <<rows, column_layout, extraction_method>>
       ELSE IF ReturnsNone(company_name, config, html)
       THEN /\ parse_pc' = "returned_none"
            /\ UNCHANGED <<rows, column_layout, extraction_method>>
       ELSE /\ parse_pc' = "loop"
            /\ rows' = html.rows
            /\ column_layout' = DictGet(company_config, "column_layout", "standard")
            /\ extraction_method' = "tr_number"
    /\ UNCHANGED <<ParseInputs, item_ix, financial_data, matched_rows_count,
                   fuzzy_matched_count, resolution, select_vars, page_vars, proc_vars, ext_vars>>

\* lines 156-216: one iteration of the loop over company_config["financial_data"]
ProcessItem ==
    /\ parse_pc = "loop"
    /\ item_ix < Len(company_config["financial_data"])
    /\ LET item == company_config["financial_data"][item_ix + 1]
           layouts == config["column_layouts"]
       IN IF ItemRaises(column_layout, item, company_config, layouts)
          THEN /\ parse_pc' = "raised"
               /\ UNCHANGED <<item_ix, column_layout, financial_data, extraction_method,
                              matched_rows_count, fuzzy_matched_count, resolution>>
          ELSE LET res == ResolveRow(rows, item, use_fuzzy_matching)
                   name == AssignColumnLayout(column_layout, item, company_config)
               IN /\ parse_pc' = "loop"
                  /\ item_ix' = item_ix + 1
                  /\ column_layout' = name
                  /\ resolution' = Append(resolution, res)
                  /\ matched_rows_count' =
                        matched_rows_count + (IF res.strategy = "direct" THEN 1 ELSE 0)
                  /\ fuzzy_matched_count' =
                        fuzzy_matched_count + (IF res.strategy = "fuzzy" THEN 1 ELSE 0)
                  /\ extraction_method' =
                        IF res.strategy = "fuzzy" THEN "mixed" ELSE extraction_method
                  /\ financial_data' =
                        AppendIfMatched(financial_data, res,
                                        Entry(rows[res.row], layouts[name], item))
    /\ UNCHANGED <<ParseInputs, rows, select_vars, page_vars, proc_vars, ext_vars>>

\* lines 218-219: the loop is exhausted, result is returned
ParseReturn ==
    /\ parse_pc = "loop"
    /\ item_ix = Len(company_config["financial_data"])
    /\ parse_pc' = "returned"
    /\ UNCHANGED <<ParseInputs, rows, item_ix, column_layout, financial_data,
                   extraction_method, matched_rows_count, fuzzy_matched_count, resolution,
                   select_vars, page_vars, proc_vars, ext_vars>>

RECURSIVE LoopEntries(_, _, _, _, _, _)
\* lines 156-216 as a function: the entries the loop appends for a list of
\* items none of which raises, started with column_layout = cur
LoopEntries(items, cur, cc, layouts, rs, fuzzy) ==
    IF items = <<>> THEN <<>>
    ELSE LET item == Head(items)
             name == AssignColumnLayout(cur, item, cc)
             res == ResolveRow(rs, item, fuzzy)
             rest == LoopEntries(Tail(items), name, cc, layouts, rs, fuzzy)
         IN AppendIfMatched(<<>>, res, Entry(rs[res.row], layouts[name], item)) \o rest

\* the locals of parse_html_table_to_json before its first statement
ParseLocalsInit ==
    /\ parse_pc = "start"
    /\ rows = <<>>
    /\ item_ix = 0
    /\ column_layout = "standard"
    /\ financial_data = <<>>
    /\ extraction_method = "tr_number"
    /\ matched_rows_count = 0
    /\ fuzzy_matched_count = 0
    /\ resolution = <<>>

\* the config dict as load_config returns it
FullConfig(cc) == ("hul" :> cc) @@ ("column_layouts" :> ColumnLayouts)

\* calls with a supported company, its configuration and a file holding a table
ParseInitValid ==
    /\ company_name = "HUL"
    /\ config \in { FullConfig(cc) : cc \in CompanyConfigs }
    /\ html \in { [has_table |-> TRUE, rows |-> t] : t \in TablePool }
    /\ use_fuzzy_matching \in BOOLEAN

\* calls that end before the loop: unknown company, company without
\* configuration, undefined default layout, file without a table element,
\* and the last two together
ParseInitEarly ==
    /\ use_fuzzy_matching = TRUE
    /\ \E cc \in { c \in CompanyConfigs : Len(c["financial_data"]) = 1 } :
        \/ /\ company_name = "ACME"
           /\ config = FullConfig(cc)
           /\ html = [has_table |-> TRUE, rows |-> TableA]
        \/ /\ company_name = "ITC"
           /\ config = FullConfig(cc)
           /\ html = [has_table |-> TRUE, rows |-> TableA]
        \/ /\ company_name = "HUL"
           /\ config = FullConfig(("column_layout" :> "missing") @@ cc)
           /\ html = [has_table |-> TRUE, rows |-> TableA]
        \/ /\ company_name = "HUL"
           /\ config = FullConfig(cc)
           /\ html = [has_table |-> FALSE, rows |-> <<>>]
        \/ /\ company_name = "HUL"
           /\ config = FullConfig(("column_layout" :> "missing") @@ cc)
           /\ html = [has_table |-> FALSE, rows |-> <<>>]

\* no find_target_page call is under way
PageIdle ==
    /\ pages = <<>>
    /\ page_pc = "idle"
    /\ page_index = 0
    /\ target_page = [found |-> FALSE, index |-> 0]
    /\ page_rule = <<>>

\* no process_pdf_document call is under way and the output directory is empty
ProcIdle ==
    /\ files = <<>>
    /\ proc = <<>>

\* no _get_value call is under way
ExcelIdle ==
    /\ data_map = <<>>
    /\ gen_company_name = ""
    /\ generated = [op |-> "none", result |-> FALSE]
    /\ get_args = <<>>
    /\ get_pc = "idle"
    /\ get_result = [kind |-> "num", num |-> 0, scale |-> 0]

\* no request to /api/update-financial-data is under way
UpdateIdle ==
    /\ upd_request = <<>>
    /\ upd_pc = "idle"
    /\ upd_response = [success |-> FALSE, status |-> 0]
    /\ json_store = <<>>

\* no FileManager is in use
FmIdle ==
    /\ metadata = <<>>
    /\ order = <<>>
    /\ stored = {}
    /\ get_calls = <<>>
    /\ deleted_entries = <<>>
    /\ fm_call = <<>>
    /\ fm_result = [op |-> "none", file_id |-> 0, result |-> "none", download_count |-> 0,
                    deleted_count |-> 0]

ExtIdle == ExcelIdle /\ UpdateIdle /\ FmIdle

SelectIdle ==
    /\ tables = <<>>
    /\ select_pc = "idle"
    /\ table_ix = 0
    /\ best_score = 0
    /\ best_index = 0
    /\ scored = <<>>

Init ==
    /\ ParseLocalsInit
    /\ ParseInitValid \/ ParseInitEarly
    /\ SelectIdle
    /\ PageIdle
    /\ ProcIdle
    /\ ExtIdle

Next == ParseBegin \/ ProcessItem \/ ParseReturn

Spec == Init /\ [][Next]_vars

----------------------------------------------------------------------------
(* _select_best_table: scoring                                             *)

\* the financial_keywords list of lines 260-264
FinancialKeywords ==
    << <<"r","e","v","e","n","u","e">>,
       <<"i","n","c","o","m","e">>,
       <<"e","x","p","e","n","s","e">>,
       <<"p","r","o","f","i","t">>,
       <<"l","o","s","s">>,
       <<"t","a","x">>,
       <<"t","o","t","a","l">>,
       <<"n","e","t">>,
       <<"e","p","s">>,
       <<"e","a","r","n","i","n","g","s"," ","p","e","r"," ","s","h","a","r","e">>,
       <<"c","o","m","p","r","e","h","e","n","s","i","v","e">>,
       <<"d","e","p","r","e","c","i","a","t","i","o","n">>,
       <<"a","m","o","r","t","i","s","a","t","i","o","n">>,
       <<"f","i","n","a","n","c","e"," ","c","o","s","t">> >>

RowCap == 50
RowWeight == 2
KeywordWeight == 10
NumberBonus == 20
SmallTableRows == 10
SmallTablePenalty == 30

RECURSIVE Concat(_)
\* the concatenation of a sequence of texts
Concat(parts) == IF parts = <<>> THEN <<>> ELSE Head(parts) \o Concat(Tail(parts))

\* table_elem.get_text().lower(): all text nodes of the table, no separator, not stripped
TableText(rs) == Lower(Concat([i \in DOMAIN rs |-> Concat(rs[i])]))

\* re.search(r'\d+[,.]?\d*', table_text): some digit occurs
HasNumbers(text) == \E i \in DOMAIN text : text[i] \in DigitChars

\* a scoring without the penalty for small tables
Score_NoPenalty(rs) ==
    LET table_text == TableText(rs)
        n == Len(rs)
    IN (IF n < RowCap THEN n ELSE RowCap) * RowWeight
       + KeywordWeight * Cardinality({k \in DOMAIN FinancialKeywords :
                                         Contains(table_text, FinancialKeywords[k])})
       + (IF HasNumbers(table_text) THEN NumberBonus ELSE 0)

\* a scoring whose row term is not capped
Score_Uncapped(rs) ==
    LET table_text == TableText(rs)
        n == Len(rs)
    IN n * RowWeight
       + KeywordWeight * Cardinality({k \in DOMAIN FinancialKeywords :
                                         Contains(table_text, FinancialKeywords[k])})
       + (IF HasNumbers(table_text) THEN NumberBonus ELSE 0)
       - (IF n < SmallTableRows THEN SmallTablePenalty ELSE 0)

\* lines 253-277: the score of a loaded table
Score(rs) ==
    LET table_text == TableText(rs)
        n == Len(rs)
    IN (IF n < RowCap THEN n ELSE RowCap) * RowWeight
       + KeywordWeight * Cardinality({k \in DOMAIN FinancialKeywords :
                                         Contains(table_text, FinancialKeywords[k])})
       + (IF HasNumbers(table_text) THEN NumberBonus ELSE 0)
       - (IF n < SmallTableRows THEN SmallTablePenalty ELSE 0)

\* lines 281-283: whether a score replaces the best so far
Better(score, best) == score > best

\* line 232: the initial best_score
InitialBestScore == -1

----------------------------------------------------------------------------
(* Candidate table files                                                   *)

S_Tax == <<"T","a","x">>
S_RichLabel == <<"T","o","t","a","l"," ","r","e","v","e","n","u","e",","," ","n","e","t"," ","l","o","s","s">>

Rep(n, row) == [i \in 1..n |-> row]

\* the HTML file of table_ix: absent, without a table element, unreadable
\* (an exception while analysing it), or holding a table
FileMissing == [kind |-> "missing", rows |-> <<>>]
FileNoTable == [kind |-> "no_table", rows |-> <<>>]
FileError == [kind |-> "error", rows |-> <<>>]
FileTable(rs) == [kind |-> "table", rows |-> rs]

\* the table files an export can leave behind, by name
CandidateFiles ==
    [ missing  |-> FileMissing,
      no_table |-> FileNoTable,
      error    |-> FileError,
      tiny1    |-> FileTable(Rep(1, <<S_Dash>>)),
      plain5   |-> FileTable(Rep(5, <<S_Particulars>>)),
      profit5  |-> FileTable(Rep(5, <<S_NetProfit, S_One>>)),
      profit9  |-> FileTable(Rep(9, <<S_NetProfit, S_One>>)),
      rich9    |-> FileTable(Rep(9, <<S_RichLabel, S_ProfitBeforeTax, S_V12>>)),
      plain10  |-> FileTable(Rep(10, <<S_Dash>>)),
      tax10    |-> FileTable(Rep(10, <<S_Tax>>)),
      rich40   |-> FileTable(Rep(40, <<S_RichLabel, S_V12>>)),
      tax50    |-> FileTable(Rep(50, <<S_Tax, S_One>>)),
      tax51    |-> FileTable(Rep(51, <<S_Tax, S_One>>)) ]

CandidatePool == DOMAIN CandidateFiles

\* the score the loop body computes for each file that holds a table
FileScore ==
    [name \in {f \in CandidatePool : CandidateFiles[f].kind = "table"} |->
        Score(CandidateFiles[name].rows)]

\* number of tables of a converted document
MaxTables == 3

TableLists == UNION { [1..n -> CandidatePool] : n \in 0..MaxTables }

----------------------------------------------------------------------------
(* _select_best_table: state machine                                       *)

\* lines 229-233: empty list returns (None, None); otherwise the locals are set
SelectBegin ==
    /\ select_pc = "start"
    /\ IF tables = <<>>
       THEN select_pc' = "returned_none"
       ELSE select_pc' = "loop"
    /\ best_score' = InitialBestScore
    /\ best_index' = 0
    /\ UNCHANGED <<tables, table_ix, scored, parse_vars, page_vars, proc_vars, ext_vars>>

\* lines 235-287: one iteration of the loop over enumerate(tables)
SelectVisit ==
    /\ select_pc = "loop"
    /\ table_ix < Len(tables)
    /\ LET file == CandidateFiles[tables[table_ix + 1]]
       IN IF file.kind # "table"
          THEN /\ scored' = Append(scored, [ok |-> FALSE, score |-> 0])
               /\ UNCHANGED <<best_score, best_index>>
          ELSE LET score == FileScore[tables[table_ix + 1]]
               IN /\ scored' = Append(scored, [ok |-> TRUE, score |-> score])
                  /\ IF Better(score, best_score)
                     THEN best_score' = score /\ best_index' = table_ix
                     ELSE UNCHANGED <<best_score, best_index>>
    /\ table_ix' = table_ix + 1
    /\ UNCHANGED <<tables, select_pc, parse_vars, page_vars, proc_vars, ext_vars>>

\* lines 289-291: the loop is exhausted, (best_index, best_html_path) is returned
SelectReturn ==
    /\ select_pc = "loop"
    /\ table_ix = Len(tables)
    /\ select_pc' = "returned"
    /\ UNCHANGED <<tables, table_ix, best_score, best_index, scored, parse_vars, page_vars, proc_vars, ext_vars>>

ParseIdle ==
    /\ parse_pc = "idle"
    /\ company_name = "HUL"
    /\ config = FullConfig("financial_data" :> <<>>)
    /\ html = [has_table |-> FALSE, rows |-> <<>>]
    /\ use_fuzzy_matching = TRUE
    /\ rows = <<>>
    /\ item_ix = 0
    /\ column_layout = "standard"
    /\ financial_data = <<>>
    /\ extraction_method = "tr_number"
    /\ matched_rows_count = 0
    /\ fuzzy_matched_count = 0
    /\ resolution = <<>>

InitSelect ==
    /\ ParseIdle
    /\ PageIdle
    /\ ProcIdle
    /\ ExtIdle
    /\ tables \in TableLists
    /\ select_pc = "start"
    /\ table_ix = 0
    /\ best_score = InitialBestScore
    /\ best_index = 0
    /\ scored = <<>>

NextSelect == SelectBegin \/ SelectVisit \/ SelectReturn

SpecSelect == InitSelect /\ [][NextSelect]_vars

----------------------------------------------------------------------------
(* find_target_page: heading patterns and re.search                        *)

\* lines 28-31: each pattern is a list of literal pieces joined by .* in the source
TARGET_HEADINGS_WITH_STANDALONE ==
    << << <<"s","t","a","n","d","a","l","o","n","e">>,
          <<"f","i","n","a","n","c","i","a","l">>,
          <<"r","e","s","u","l","t">>,
          <<"3","0">>,
          <<"j","u","n","e">>,
          <<"2","0","2","5">> >>,
       << <<"s","t","a","t","e","m","e","n","t"," ","o","f">>,
          <<"s","t","a","n","d","a","l","o","n","e">>,
          <<"3","0">>,
          <<"j","u","n","e">>,
          <<"2","0","2","5">> >> >>

\* lines 33-38; U+0442, U+043D and U+0435 stand for the Cyrillic letters of the last pattern
TARGET_HEADINGS_GENERIC ==
    << << <<"s","t","a","t","e","m","e","n","t"," ","o","f"," ","u","n","a","u","d","i","t","e","d">>,
          <<"f","i","n","a","n","c","i","a","l">>,
          <<"r","e","s","u","l","t">>,
          <<"3","0">>,
          <<"j","u","n","e">>,
          <<"2","0","2","5">> >>,
       << <<"u","n","a","u","d","i","t","e","d">>,
          <<"f","i","n","a","n","c","i","a","l">>,
          <<"r","e","s","u","l","t">>,
          <<"3","0">>,
          <<"j","u","n","e">>,
          <<"2","0","2","5">> >>,
       << <<"f","i","n","a","n","c","i","a","l">>,
          <<"r","e","s","u","l","t">>,
          <<"q","u","a","r","t","e","r">>,
          <<"3","0">>,
          <<"j","u","n","e">>,
          <<"2","0","2","5">> >>,
       << <<"s","f","a","t","e","m","e","n","t"," ","o","f"," ","u","n","a","u","d","i","U+0442","e","d">>,
          <<"f","i","n","a","n","c","i","a","l">>,
          <<"r","e","5","u","l","U+0442","s">>,
          <<"f","o","r"," ","U+0442","U+043D","U+0435"," ","q","u","a","r","t","e","r"," ","e","n","d","e","d">>,
          <<"]","u","n","e">>,
          <<"3","0",",">>,
          <<"2","0","2","5">> >> >>

\* the literal of line 57
S_Consolidated == <<"c","o","n","s","o","l","i","d","a","t","e","d">>

\* whether the literal piece seg stands in text at position p
OccursAt(text, seg, p) ==
    /\ p + Len(seg) - 1 <= Len(text)
    /\ \A j \in DOMAIN seg : text[p + j - 1] = seg[j]

RECURSIVE PiecesFrom(_, _, _, _)
\* whether pieces k.. of a pattern occur in text in this order from position
\* pos on, each after the end of the one before: what piece .* piece .* ...
\* matches when no character of text is excluded from "."
PiecesFrom(text, pieces, k, pos) ==
    LET at == {p \in pos..Len(text) : OccursAt(text, pieces[k], p)}
    IN IF at = {} THEN FALSE
       ELSE IF k = Len(pieces) THEN TRUE
       ELSE LET first == CHOOSE p \in at : \A q \in at : p <= q
            IN PiecesFrom(text, pieces, k + 1, first + Len(pieces[k]))

\* the maximal pieces of text without a line break, as <<first, last>> positions
LinesOf(text) ==
    {<<a, b>> \in (1..Len(text)) \X (1..Len(text)) :
        /\ a <= b
        /\ \A i \in a..b : text[i] # "\n"
        /\ a = 1 \/ text[a - 1] = "\n"
        /\ b = Len(text) \/ text[b + 1] = "\n"}

\* re.search(pattern, text) without flags: "." matches any character but a
\* line break, so the whole match lies within one line of the text
Search(pattern, text) ==
    \E l \in LinesOf(text) : PiecesFrom(SubSeq(text, l[1], l[2]), pattern, 1, 1)

SearchAny(patterns, text) == \E k \in DOMAIN patterns : Search(patterns[k], text)

\* a classification that looks at the word "consolidated" before the patterns
Classify_ConsolidatedFirst(text_lower) ==
    IF Contains(text_lower, S_Consolidated) THEN "skipped"
    ELSE IF SearchAny(TARGET_HEADINGS_WITH_STANDALONE, text_lower) THEN "explicit"
    ELSE IF SearchAny(TARGET_HEADINGS_GENERIC, text_lower) THEN "generic"
    ELSE "none"

\* a classification that applies the generic patterns to every page
Classify_IgnoreConsolidated(text_lower) ==
    IF SearchAny(TARGET_HEADINGS_WITH_STANDALONE, text_lower) THEN "explicit"
    ELSE IF SearchAny(TARGET_HEADINGS_GENERIC, text_lower) THEN "generic"
    ELSE "none"

\* lines 50-63: the branch one page takes: "explicit" and "generic" return
\* the page, "skipped" and "none" go on to the next page
Classify(text_lower) ==
    IF SearchAny(TARGET_HEADINGS_WITH_STANDALONE, text_lower) THEN "explicit"
    ELSE IF ~Contains(text_lower, S_Consolidated)
         THEN IF SearchAny(TARGET_HEADINGS_GENERIC, text_lower) THEN "generic" ELSE "none"
         ELSE "skipped"

\* a scan that falls back to the first page
NotFound_FirstPage == [found |-> TRUE, index |-> 0]

\* line 65: return None
NotFound == [found |-> FALSE, index |-> 0]

----------------------------------------------------------------------------
(* Page texts                                                              *)

S_PageNotes == <<
    "N","o","t","e","s"," ","t","o"," ","t","h","e"," ","r","e","s","u","l","t","s" >>
S_PageStandalone == <<
    "S","t","a","t","e","m","e","n","t"," ","o","f"," ","S","t","a","n","d","a","l","o","n","e"," ",
    "U","n","a","u","d","i","t","e","d"," ","F","i","n","a","n","c","i","a","l"," ","R","e","s","u",
    "l","t","s"," ","f","o","r"," ","t","h","e"," ","q","u","a","r","t","e","r"," ","e","n","d","e",
    "d"," ","3","0"," ","J","u","n","e"," ","2","0","2","5" >>
S_PageBoth == <<
    "S","t","a","n","d","a","l","o","n","e"," ","a","n","d"," ","C","o","n","s","o","l","i","d","a",
    "t","e","d"," ","F","i","n","a","n","c","i","a","l"," ","R","e","s","u","l","t","s"," ","3","0",
    " ","J","u","n","e"," ","2","0","2","5" >>
S_PageConsolidated == <<
    "S","t","a","t","e","m","e","n","t"," ","o","f"," ","C","o","n","s","o","l","i","d","a","t","e",
    "d"," ","U","n","a","u","d","i","t","e","d"," ","F","i","n","a","n","c","i","a","l"," ","R","e",
    "s","u","l","t","s"," ","f","o","r"," ","t","h","e"," ","q","u","a","r","t","e","r"," ","e","n",
    "d","e","d"," ","3","0"," ","J","u","n","e"," ","2","0","2","5" >>
S_PageCover == <<
    "U","n","a","u","d","i","t","e","d"," ","F","i","n","a","n","c","i","a","l"," ","R","e","s","u",
    "l","t","s"," ","f","o","r"," ","t","h","e"," ","q","u","a","r","t","e","r"," ","e","n","d","e",
    "d"," ","3","0"," ","J","u","n","e"," ","2","0","2","5" >>
S_PageSplit == <<
    "S","t","a","t","e","m","e","n","t"," ","o","f"," ","S","t","a","n","d","a","l","o","n","e"," ",
    "U","n","a","u","d","i","t","e","d","\n","F","i","n","a","n","c","i","a","l"," ","R","e","s",
    "u","l","t","s","\n","f","o","r"," ","t","h","e"," ","q","u","a","r","t","e","r"," ","e","n",
    "d","e","d"," ","3","0"," ","J","u","n","e"," ","2","0","2","5" >>
S_PageNoisy == <<
    "S","T","A","N","D","A","L","O","N","E"," "," "," ","f","i","n","a","n","c","i","a","l"," ","-",
    "-"," "," ","R","E","S","U","L","T","S"," ",":",":"," "," ","3","0","t","h"," "," ","J","U","N",
    "E"," ",","," "," ","2","0","2","5" >>
S_PageInner == <<
    "A","c","m","e"," ","L","t","d","\n","S","t","a","n","d","a","l","o","n","e"," ","F","i","n",
    "a","n","c","i","a","l"," ","R","e","s","u","l","t","s"," ","3","0"," ","J","u","n","e"," ","2",
    "0","2","5","\n","R","s","."," ","i","n"," ","c","r","o","r","e" >>
S_PageGarbled == <<
    "s","f","a","t","e","m","e","n","t"," ","o","f"," ","u","n","a","u","d","i","U+0442","e","d",
    " ","f","i","n","a","n","c","i","a","l"," ","r","e","5","u","l","U+0442","s"," ","f","o","r",
    " ","U+0442","U+043D","U+0435"," ","q","u","a","r","t","e","r"," ","e","n","d","e","d"," ","]",
    "u","n","e"," ","3","0",","," ","2","0","2","5" >>
S_PageGarbledCaps == <<
    "S","F","A","T","E","M","E","N","T"," ","O","F"," ","U","N","A","U","D","I","U+0422","E","D",
    " ","F","I","N","A","N","C","I","A","L"," ","R","E","5","U","L","U+0422","S"," ","F","O","R",
    " ","U+0422","U+041D","U+0415"," ","Q","U","A","R","T","E","R"," ","E","N","D","E","D"," ",
    "]","U","N","E"," ","3","0",","," ","2","0","2","5" >>

\* what page.extract_text() returns: a text, or None for a page without a text layer
NoText == [has_text |-> FALSE, text |-> <<>>]
Text(t) == [has_text |-> TRUE, text |-> t]

\* the pages a PDF can hold, by name
PageFiles ==
    [ no_text      |-> NoText,
      empty        |-> Text(<<>>),
      notes        |-> Text(S_PageNotes),
      standalone   |-> Text(S_PageStandalone),
      both         |-> Text(S_PageBoth),
      consolidated |-> Text(S_PageConsolidated),
      cover        |-> Text(S_PageCover),
      split        |-> Text(S_PageSplit),
      noisy        |-> Text(S_PageNoisy),
      inner        |-> Text(S_PageInner),
      garbled      |-> Text(S_PageGarbled),
      garbled_caps |-> Text(S_PageGarbledCaps) ]

PagePool == DOMAIN PageFiles

\* lines 46-47: text = page.extract_text() or ""; text_lower = text.lower()
TextLower(page) == Lower(IF page.has_text THEN page.text ELSE <<>>)

\* the branch the loop body takes for each page
PageRule == [name \in PagePool |-> Classify(TextLower(PageFiles[name]))]

\* number of pages of a PDF
MaxPages == 3

PageLists == UNION { [1..n -> PagePool] : n \in 0..MaxPages }

----------------------------------------------------------------------------
(* find_target_page: state machine                                         *)

\* lines 45-63: one iteration of the loop over enumerate(reader.pages)
PageVisit ==
    /\ page_pc = "loop"
    /\ page_index < Len(pages)
    /\ LET rule == PageRule[pages[page_index + 1]]
       IN /\ page_rule' = Append(page_rule, rule)
          /\ IF rule \in {"explicit", "generic"}
             THEN /\ target_page' = [found |-> TRUE, index |-> page_index]
                  /\ page_pc' = "returned"
                  /\ UNCHANGED page_index
             ELSE /\ page_index' = page_index + 1
                  /\ UNCHANGED <<target_page, page_pc>>
    /\ UNCHANGED <<pages, parse_vars, select_vars, proc_vars, ext_vars>>

\* line 65: the loop is exhausted
PageReturnNone ==
    /\ page_pc = "loop"
    /\ page_index = Len(pages)
    /\ target_page' = NotFound
    /\ page_pc' = "returned"
    /\ UNCHANGED <<pages, page_index, page_rule, parse_vars, select_vars, proc_vars, ext_vars>>

InitPage ==
    /\ ParseIdle
    /\ SelectIdle
    /\ ProcIdle
    /\ ExtIdle
    /\ pages \in PageLists
    /\ page_pc = "loop"
    /\ page_index = 0
    /\ target_page = [found |-> FALSE, index |-> 0]
    /\ page_rule = <<>>

NextPage == PageVisit \/ PageReturnNone

SpecPage == InitPage /\ [][NextPage]_vars

----------------------------------------------------------------------------
(* process_pdf_document: from the converted document to the result         *)

\* the requests that are served at the same time; app.py line 169 gives both
\* the output directory output/<company>_<file stem>, so two requests for one
\* company and one file stem write and read the same table files
Requests == {"r1", "r2"}

\* the tables a converted document can hold, by name
DocTables == [ sales |-> TableA, profit |-> TableC ]

DocPool == DOMAIN DocTables

\* number of tables of a converted document
MaxDocTables == 2

DocLists == UNION { [1..n -> DocPool] : n \in 0..MaxDocTables }

\* the score _select_best_table computes for a table file with this content
DocScore == [name \in DocPool |-> Score(DocTables[name])]

\* the company configuration of the requests
ProcessItems ==
    << ("key" :> FieldKeys[1]) @@ ("labels" :> <<S_SaleOfGoods>>) @@ ("tr_number" :> 1),
       ("key" :> FieldKeys[3]) @@ ("labels" :> <<S_ProfitBeforeTax, S_NetProfit>>) >>

ProcessCompanyConfig == "financial_data" :> ProcessItems

\* line 415: json_result = None
NoRecord == [present |-> FALSE, financial_data |-> <<>>]

\* the company of the requests (app.py line 135: the form's company_name)
ProcessCompany == "HUL"

\* the company names as texts
CompanyChars ==
    [ HUL |-> <<"H", "U", "L">>, ITC |-> <<"I", "T", "C">>, ACME |-> <<"A", "C", "M", "E">> ]

\* line 385: doc_filename = conv_res.input.file.stem, the stem of the upload
DocFilename == <<"t", "e", "s", "t", "_", "d", "o", "c", "u", "m", "e", "n", "t">>

\* pdf_path.name
SourceFile == DocFilename \o <<".", "p", "d", "f">>

\* a table file that has been opened for writing and not written yet: it
\* exists and holds no text
EmptyFile == "empty"

\* soup.find('table') finds a table in a file of this content (lines 245-250, 135-140)
HasTable(content) == content # EmptyFile

\* lines 172-181: "mixed" once an item was resolved by its labels
LoopMethod(items, rs, fuzzy) ==
    IF \E i \in DOMAIN items : ResolveRow(rs, items[i], fuzzy).strategy = "fuzzy"
    THEN "mixed"
    ELSE "tr_number"

\* lines 145-149, 219: the record parse_html_table_to_json returns for a
\* table file with this content
ParsedRecord ==
    [name \in DocPool |->
        [present |-> TRUE,
         company_name |-> ProcessCompany,
         extraction_method |-> LoopMethod(ProcessItems, DocTables[name], TRUE),
         financial_data |->
             LoopEntries(ProcessItems,
                         DictGet(ProcessCompanyConfig, "column_layout", "standard"),
                         ProcessCompanyConfig, ColumnLayouts, DocTables[name], TRUE)]]

\* lines 130-140, 219: parse_html_table_to_json on a table file; None for a
\* file without a table
ParseFile(content) == IF HasTable(content) THEN ParsedRecord[content] ELSE NoRecord

\* line 433: conv_res.timings["pipeline_total"].times, the list of the
\* seconds the converter measured, in hundredths: [2.5] and [12.25]
ConversionTimes == { <<250>>, <<1225>> }

\* lines 443-450: the metadata added to a record
WithMetadata(record, p) ==
    [present |-> TRUE,
     company_name |-> record.company_name,
     extraction_method |-> record.extraction_method,
     financial_data |-> record.financial_data,
     metadata |-> [source_file |-> SourceFile,
                   table_number |-> p.selected_table,
                   total_tables |-> Len(p.tables),
                   extraction_method |-> record.extraction_method,
                   processing_time_seconds |-> p.doc_conversion_secs]]

\* line 455: the text json.dump writes for a record
JsonDump(record) ==
    [company_name |-> CompanyChars[record.company_name],
     extraction_method |-> record.extraction_method,
     financial_data |-> record.financial_data,
     metadata |-> record.metadata]

\* a JSON file that has been opened for writing and not written yet
EmptyJson == [kind |-> "empty"]

\* a JSON file in which a shorter text was written over the head of a longer one
TornJson == [kind |-> "torn"]

S_Data == <<"-", "f", "i", "n", "a", "n", "c", "i", "a", "l", "-", "d", "a", "t", "a", ".", "j", "s", "o", "n">>

\* line 453 with app.py line 169: output/<company>_<stem>/<stem>-financial-data.json
JsonOutputPath(p) ==
    [dir |-> CompanyChars[p.company_name] \o <<"_">> \o DocFilename,
     file |-> DocFilename \o S_Data]

\* a selection that sends every non-empty list through the heuristic
SelectionBranch_AlwaysScore(n) ==
    IF n >= 1 THEN "heuristic" ELSE "default"

\* lines 418-430: the branch taken for a document of n tables
SelectionBranch(n) ==
    IF n > 1 THEN "heuristic" ELSE IF n = 1 THEN "single_table" ELSE "default"

\* the locals of a call whose conversion returned the tables doc and
\* measured the time secs (lines 385-391, 433)
ProcLocals(doc, secs) ==
    [pc |-> "export", tables |-> doc, table_ix |-> 0, doc_conversion_secs |-> secs,
     best_score |-> InitialBestScore, best_index |-> 0,
     selected_html |-> 0, selected_table |-> 1, selection_method |-> "default",
     json_result |-> NoRecord, success |-> FALSE, scores |-> 0,
     company_name |-> ProcessCompany]

\* lines 394-404: an iteration of the export loop begins: the .csv file is
\* written (no call reads it) and <stem>-table-<n>.html is opened with mode
\* 'w', which creates it or empties it
ExportOpen(r) ==
    /\ proc[r].pc = "export"
    /\ proc[r].table_ix < Len(proc[r].tables)
    /\ files' = ((proc[r].table_ix + 1) :> EmptyFile) @@ files
    /\ proc' = [proc EXCEPT ![r].pc = "export_html"]
    /\ UNCHANGED <<parse_vars, select_vars, page_vars, ext_vars>>

\* lines 405-412: table.export_to_html() has returned; its text is written
\* when the file is closed, from the start of the file, and the .md file is
\* written (no call reads it). A text written over a longer one leaves the
\* longer one's tail behind the closing tag of the table, where
\* soup.find('table') does not look.
ExportWrite(r) ==
    /\ proc[r].pc = "export_html"
    /\ files' = ((proc[r].table_ix + 1) :> proc[r].tables[proc[r].table_ix + 1]) @@ files
    /\ proc' = [proc EXCEPT ![r] = [@ EXCEPT !.pc = "export", !.table_ix = @ + 1]]
    /\ UNCHANGED <<parse_vars, select_vars, page_vars, ext_vars>>

\* lines 414-430 with lines 229-233: the export loop is over and the branch
\* on the number of tables is taken; "heuristic" enters _select_best_table
\* (selected_html = 0 stands for None, n for <stem>-table-<n>.html)
ChooseSelection(r) ==
    /\ proc[r].pc = "export"
    /\ proc[r].table_ix = Len(proc[r].tables)
    /\ LET branch == SelectionBranch(Len(proc[r].tables))
       IN proc' = [proc EXCEPT ![r] =
              IF branch = "heuristic"
              THEN [@ EXCEPT !.pc = "scan", !.table_ix = 0,
                             !.best_score = InitialBestScore, !.best_index = 0]
              ELSE IF branch = "single_table"
              THEN [@ EXCEPT !.pc = "parse", !.selected_html = 1,
                             !.selection_method = "single_table"]
              ELSE [@ EXCEPT !.pc = "parse"]]
    /\ UNCHANGED <<files, parse_vars, select_vars, page_vars, ext_vars>>

\* lines 235-287: one iteration of the loop of _select_best_table, which
\* reads the table file of the output directory; a file that is missing
\* (line 239) or holds no table (line 249) is passed over
ScanTable(r) ==
    /\ proc[r].pc = "scan"
    /\ proc[r].table_ix < Len(proc[r].tables)
    /\ LET n == proc[r].table_ix + 1
           p == proc[r]
       IN proc' = [proc EXCEPT ![r] =
              IF n \notin DOMAIN files \/ ~HasTable(files[n])
              THEN [p EXCEPT !.table_ix = n]
              ELSE LET score == DocScore[files[n]]
                   IN IF Better(score, p.best_score)
                      THEN [p EXCEPT !.table_ix = n, !.scores = p.scores + 1,
                                     !.best_score = score, !.best_index = n - 1]
                      ELSE [p EXCEPT !.table_ix = n, !.scores = p.scores + 1]]
    /\ UNCHANGED <<files, parse_vars, select_vars, page_vars, ext_vars>>

\* lines 289-291 and 423-425: _select_best_table returns and the selection is recorded
ScanReturn(r) ==
    /\ proc[r].pc = "scan"
    /\ proc[r].table_ix = Len(proc[r].tables)
    /\ proc' = [proc EXCEPT ![r] =
           [proc[r] EXCEPT !.pc = "parse", !.selected_html = proc[r].best_index + 1,
                           !.selected_table = proc[r].best_index + 1,
                           !.selection_method = "heuristic"]]
    /\ UNCHANGED <<files, parse_vars, select_vars, page_vars, ext_vars>>

\* lines 443-451, 459-466: the metadata is added to a record and the JSON
\* file is to be saved; without a record the call returns
AfterParse(p, record) ==
    IF record.present
    THEN [p EXCEPT !.pc = "save", !.json_result = WithMetadata(record, p)]
    ELSE [p EXCEPT !.pc = "returned", !.success = TRUE, !.json_result = NoRecord]

\* lines 436-451: the selected file, if any, is read and parsed
ParseSelected(r) ==
    /\ proc[r].pc = "parse"
    /\ LET sel == proc[r].selected_html
       IN proc' = [proc EXCEPT ![r] =
              AfterParse(proc[r], IF sel # 0 /\ sel \in DOMAIN files
                                  THEN ParseFile(files[sel])
                                  ELSE NoRecord)]
    /\ UNCHANGED <<files, parse_vars, select_vars, page_vars, ext_vars>>

\* lines 453-454: <stem>-financial-data.json is opened with mode 'w', which
\* creates it or empties it
OpenJson(r) ==
    /\ proc[r].pc = "save"
    /\ json_store' = (JsonOutputPath(proc[r]) :> EmptyJson) @@ json_store
    /\ proc' = [proc EXCEPT ![r].pc = "dump"]
    /\ UNCHANGED <<files, parse_vars, select_vars, page_vars, excel_vars,
                   upd_request, upd_pc, upd_response, fm_vars>>

\* lines 455-466: json.dump; the text is written when the file is closed,
\* from the start of the file, and the call returns. Over a different text
\* that another call has written since the file was opened (the texts of two
\* calls differ at least in processing_time_seconds, unless the converter
\* measured the same time for both), the file holds this call's text, or,
\* when this text is the shorter one, this text and the other's tail.
DumpJson(r) ==
    /\ proc[r].pc = "dump"
    /\ LET path == JsonOutputPath(proc[r])
           text == JsonDump(proc[r].json_result)
       IN \E torn \in BOOLEAN :
             /\ torn => json_store[path] \notin {EmptyJson, text}
             /\ json_store' = (path :> (IF torn THEN TornJson ELSE text)) @@ json_store
    /\ proc' = [proc EXCEPT ![r] = [@ EXCEPT !.pc = "returned", !.success = TRUE]]
    /\ UNCHANGED <<files, parse_vars, select_vars, page_vars, excel_vars,
                   upd_request, upd_pc, upd_response, fm_vars>>

\* both requests have converted their PDF; the output directory is new
InitProcess ==
    /\ ParseIdle
    /\ SelectIdle
    /\ PageIdle
    /\ ExtIdle
    /\ files = <<>>
    /\ proc \in { [r \in Requests |-> ProcLocals(d[r], t[r])] :
                     d \in [Requests -> DocLists], t \in [Requests -> ConversionTimes] }

NextProcess ==
    \E r \in Requests :
        \/ ExportOpen(r)
        \/ ExportWrite(r)
        \/ ChooseSelection(r)
        \/ ScanTable(r)
        \/ ScanReturn(r)
        \/ ParseSelected(r)
        \/ OpenJson(r)
        \/ DumpJson(r)

SpecProcess == InitProcess /\ [][NextProcess]_vars

----------------------------------------------------------------------------
(* Properties of parse_html_table_to_json (checked under Spec)             *)

\* the i-th configured item; defined once the loop has been entered
ItemAt(i) == company_config["financial_data"][i]

\* items the loop has processed so far
Processed == 1..Len(resolution)

TrNumberOf(item) == IF "tr_number" \in DOMAIN item THEN item["tr_number"] ELSE 0
TrValid(item) == TrNumberOf(item) >= 1 /\ TrNumberOf(item) <= Len(rows)
Resolved(i) == resolution[i].strategy # "none"
RowOf(i) == rows[resolution[i].row]

\* position in financial_data of the entry of processed item i
EntryIndex(i) == Cardinality({k \in 1..i : Resolved(k)})
EntryOf(i) == financial_data[EntryIndex(i)]

DefaultLayout ==
    ColumnLayouts[IF "column_layout" \in DOMAIN company_config
                  THEN company_config["column_layout"] ELSE "standard"]
ActiveLayout(item) ==
    IF "column_layout" \in DOMAIN item THEN ColumnLayouts[item["column_layout"]]
    ELSE DefaultLayout
LabelOrdinal(layout) == IF "label" \in DOMAIN layout THEN layout["label"] ELSE 2

RECURSIVE DropLeadingSpace(_)
DropLeadingSpace(s) ==
    IF s # <<>> /\ Head(s) \in SpaceChars THEN DropLeadingSpace(Tail(s)) ELSE s
RECURSIVE DropTrailingSpace(_)
DropTrailingSpace(s) ==
    IF s # <<>> /\ s[Len(s)] \in SpaceChars
    THEN DropTrailingSpace(SubSeq(s, 1, Len(s) - 1)) ELSE s
\* the text of a cell with surrounding whitespace removed and nothing else changed
TrimmedText(s) == DropTrailingSpace(DropLeadingSpace(s))

\* the raw value of a period: the trimmed cell at the 1-based ordinal, "" beyond the row
ExpectedValue(cells, ordinal) ==
    IF ordinal <= Len(cells) THEN TrimmedText(cells[ordinal]) ELSE <<>>
ExpectedValues(cells, layout) ==
    [d \in DOMAIN layout \ {"label"} |-> ExpectedValue(cells, layout[d])]
ExpectedParticular(cells, layout, item) ==
    IF ExpectedValue(cells, LabelOrdinal(layout)) # <<>>
    THEN ExpectedValue(cells, LabelOrdinal(layout))
    ELSE IF item["labels"] # <<>> THEN item["labels"][1]
    ELSE item["key"]

\* C1: a field whose tr_number lies in [1, row count] is resolved from row
\* tr_number by the direct strategy, whatever rows its labels match and
\* whether or not fuzzy matching is enabled.
C1_DirectTakesPrecedence ==
    \A i \in Processed :
        TrValid(ItemAt(i)) =>
            /\ resolution[i] = [strategy |-> "direct", row |-> TrNumberOf(ItemAt(i))]
            /\ EntryOf(i).key = ItemAt(i)["key"]
            /\ EntryOf(i).values =
                  ExpectedValues(rows[TrNumberOf(ItemAt(i))], ActiveLayout(ItemAt(i)))

\* C1 witness: fuzzy matching is enabled, the labels of a field with a valid
\* tr_number match a different row, and the field was resolved directly.
C1_Witness ==
    \E i \in Processed :
        /\ use_fuzzy_matching
        /\ TrValid(ItemAt(i))
        /\ ItemAt(i)["labels"] # <<>>
        /\ FindMatchingRow(rows, ItemAt(i)["labels"]) \notin {-1, TrNumberOf(ItemAt(i)) - 1}
        /\ resolution[i].strategy = "direct"

\* normalisation as the claim words it: lower-cased, every non-word
\* character (whitespace included) removed
StrippedNonWord(text) == SelectSeq(Lower(text), LAMBDA c : c \in WordChars)

\* normalisation of the amended claim: lower-cased, every character that is
\* neither a word character nor whitespace removed
StrippedPunctuation(text) ==
    SelectSeq(Lower(text), LAMBDA c : c \in WordChars \cup SpaceChars)

\* rows that contain label or start with its first 15 characters, both
\* normalised by StrippedNonWord
RowsMatchingNonWord(labels) ==
    {r \in 1..Len(rows) : \E j \in DOMAIN labels :
        \/ Contains(StrippedNonWord(RowText(rows[r])), StrippedNonWord(labels[j]))
        \/ StartsWith(StrippedNonWord(RowText(rows[r])),
                      Slice(StrippedNonWord(labels[j]), PrefixLen))}

\* the same, both normalised by StrippedPunctuation
RowsMatchingPunctuation(labels) ==
    {r \in 1..Len(rows) : \E j \in DOMAIN labels :
        \/ Contains(StrippedPunctuation(RowText(rows[r])), StrippedPunctuation(labels[j]))
        \/ StartsWith(StrippedPunctuation(RowText(rows[r])),
                      Slice(StrippedPunctuation(labels[j]), PrefixLen))}

FirstOf(S) == CHOOSE r \in S : \A q \in S : r <= q

\* the outcome of fuzzy resolution over a set of matching rows
FuzzyOutcome(S) ==
    IF S = {} THEN [strategy |-> "none", row |-> 0]
    ELSE [strategy |-> "fuzzy", row |-> FirstOf(S)]

\* C2 as stated: with tr_number absent or out of range and fuzzy matching
\* enabled, the field resolves to the first row whose text, with all
\* non-word characters removed and lower-cased, contains a label normalised
\* the same way or starts with its first 15 characters.
C2_Original_FirstRowNonWordStripped ==
    \A i \in Processed :
        (~TrValid(ItemAt(i)) /\ use_fuzzy_matching) =>
            resolution[i] = FuzzyOutcome(RowsMatchingNonWord(ItemAt(i)["labels"]))

\* C2 amended: the same with the normalisation that keeps whitespace: only
\* characters that are neither word characters nor whitespace are removed.
C2_FirstRowPunctuationStripped ==
    \A i \in Processed :
        (~TrValid(ItemAt(i)) /\ use_fuzzy_matching) =>
            /\ resolution[i] = FuzzyOutcome(RowsMatchingPunctuation(ItemAt(i)["labels"]))
            /\ Resolved(i) => EntryOf(i).key = ItemAt(i)["key"]

\* C2 witness: label "Sale of goods" with tr_number 99 resolved to the row
\* reading "Sale of Goods / Income from operations".
C2_Witness ==
    \E i \in Processed :
        /\ TrNumberOf(ItemAt(i)) = 99
        /\ ItemAt(i)["labels"] = <<S_SaleOfGoods>>
        /\ resolution[i].strategy = "fuzzy"
        /\ S_SaleOfGoodsIncome \in {RowOf(i)[c] : c \in DOMAIN RowOf(i)}

\* C3: the values of a resolved field hold exactly the period keys of its
\* active layout (all keys but "label"), each the trimmed raw text of the
\* cell at the 1-based ordinal, or "" when the row has no such cell.
C3_ValuesArePeriodCells ==
    \A i \in Processed :
        Resolved(i) => EntryOf(i).values = ExpectedValues(RowOf(i), ActiveLayout(ItemAt(i)))

\* C3 witness: one record holds a parenthesised value, a value with a
\* thousands separator whose surrounding blanks were trimmed, and an empty
\* value for a period beyond the row's cells.
C3_Witness ==
    /\ \E e \in DOMAIN financial_data : \E d \in DOMAIN financial_data[e].values :
          financial_data[e].values[d] = S_VNeg
    /\ \E e \in DOMAIN financial_data : \E d \in DOMAIN financial_data[e].values :
          financial_data[e].values[d] = <<"4",",","3","5","7",".","6","4">>
    /\ \E i \in Processed : \E d \in DOMAIN ActiveLayout(ItemAt(i)) \ {"label"} :
          /\ Resolved(i)
          /\ ActiveLayout(ItemAt(i))[d] > Len(RowOf(i))
          /\ EntryOf(i).values[d] = <<>>

\* the strategies of the resolved fields
StrategiesUsed == {resolution[i].strategy : i \in {k \in Processed : Resolved(k)}}

\* the tag the code writes for "direct"
DirectTag == "tr_number"

\* C4 as stated: the returned extraction_method is direct when every
\* resolved field was resolved directly, fuzzy when every resolved field was
\* resolved by label matching, mixed otherwise.
C4_MethodSummarisesStrategies ==
    parse_pc = "returned" =>
        extraction_method =
            IF StrategiesUsed \subseteq {"direct"} THEN DirectTag
            ELSE IF StrategiesUsed \subseteq {"fuzzy"} THEN "fuzzy"
            ELSE "mixed"

\* C5: every entry has a non-empty particular: the label cell's text when the
\* cell exists and is non-empty, else the first configured label, else the key.
\* The chain is the one of lines 188-196, but its last two links can be "":
\* a field configured with "labels": [""] (or with no labels and the key "")
\* whose label cell is empty or absent is recorded with the particular "".
C5_ParticularNonEmpty ==
    \A i \in Processed :
        Resolved(i) =>
            /\ EntryOf(i).particular # <<>>
            /\ EntryOf(i).particular =
                  ExpectedParticular(RowOf(i), ActiveLayout(ItemAt(i)), ItemAt(i))

\* C6: a field without a column_layout override is extracted with the
\* company's default layout, whatever overrides earlier fields carried.
C6_OverrideIsPerField ==
    \A i \in Processed :
        (Resolved(i) /\ "column_layout" \notin DOMAIN ItemAt(i)) =>
            /\ EntryOf(i).values = ExpectedValues(RowOf(i), DefaultLayout)
            /\ EntryOf(i).particular = ExpectedParticular(RowOf(i), DefaultLayout, ItemAt(i))

\* C6 witness: a field with an override is followed by a resolved field without one.
C6_Witness ==
    \E i \in Processed : \E j \in Processed :
        /\ i < j
        /\ "column_layout" \in DOMAIN ItemAt(i)
        /\ "column_layout" \notin DOMAIN ItemAt(j)
        /\ Resolved(j)

\* the configured items that were resolved, in configuration order
ResolvedItems ==
    LET items == company_config["financial_data"]
        F[i \in 0..Len(items)] ==
            IF i = 0 THEN <<>>
            ELSE IF Resolved(i) THEN Append(F[i - 1], items[i]) ELSE F[i - 1]
    IN F[Len(items)]

\* whether an item violates the schema the loop relies on
SchemaViolation(item) ==
    \/ "labels" \notin DOMAIN item
    \/ /\ "column_layout" \in DOMAIN item
       /\ item["column_layout"] \notin DOMAIN ColumnLayouts

\* C7: an unresolved field is omitted without raising, and the record is the
\* one the same call returns for the configuration without the unresolved fields.
C7_UnresolvedFieldsLeaveNoTrace ==
    /\ parse_pc = "returned" =>
          financial_data =
              LoopEntries(ResolvedItems,
                          DictGet(company_config, "column_layout", "standard"),
                          company_config, config["column_layouts"], rows,
                          use_fuzzy_matching)
    /\ (parse_pc = "raised" /\ ~BeginRaises(company_name, config)) =>
          SchemaViolation(ItemAt(item_ix + 1))

\* C7 witness: a returned record for a configuration whose first field was
\* unresolved and carried an override, and whose second field was resolved.
C7_Witness ==
    /\ parse_pc = "returned"
    /\ Len(resolution) = 2
    /\ ~Resolved(1)
    /\ "column_layout" \in DOMAIN ItemAt(1)
    /\ Resolved(2)

\* C8: with use_fuzzy_matching false no field is resolved by label matching:
\* the record holds exactly the fields whose tr_number lies in [1, row count].
C8_NoFuzzyWhenDisabled ==
    ~use_fuzzy_matching =>
        /\ \A i \in Processed : resolution[i].strategy # "fuzzy"
        /\ \A i \in Processed : Resolved(i) <=> TrValid(ItemAt(i))
        /\ Len(financial_data) = Cardinality({i \in Processed : TrValid(ItemAt(i))})
        /\ \A i \in Processed : TrValid(ItemAt(i)) => EntryOf(i).key = ItemAt(i)["key"]

\* C8 witness: fuzzy matching is disabled and a field without a usable
\* tr_number, whose labels match a row of the table, was omitted.
C8_Witness ==
    \E i \in Processed :
        /\ ~use_fuzzy_matching
        /\ ~TrValid(ItemAt(i))
        /\ RowsMatchingPunctuation(ItemAt(i)["labels"]) # {}
        /\ ~Resolved(i)
        /\ \A e \in DOMAIN financial_data : financial_data[e].key # ItemAt(i)["key"]

\* C9 as stated: no FieldSpec makes parse_html_table_to_json raise: a call
\* that got past its configuration lookups never ends in an exception.
C9_FieldFailuresAreLocal ==
    parse_pc = "raised" => BeginRaises(company_name, config)

----------------------------------------------------------------------------
(* Properties of _select_best_table (checked under SpecSelect)             *)

\* C10 as stated: for a non-empty list of loadable candidates the returned
\* index is that of the greatest score, the earliest one among equals, also
\* when every score is negative.
C10_ReturnsEarliestMaximum ==
    (select_pc = "returned" /\ \A i \in DOMAIN scored : scored[i].ok) =>
        /\ \A i \in DOMAIN scored : scored[i].score <= scored[best_index + 1].score
        /\ \A i \in 1..best_index : scored[i].score < scored[best_index + 1].score

\* what the statements about the score speak of: whether candidate i could be
\* loaded, its number of rows, the number of distinct vocabulary keywords in
\* its text and whether its text holds a numeric token
Loadable(i) == CandidateFiles[tables[i]].kind = "table"
RowCount(name) == Len(CandidateFiles[name].rows)
KeywordCount ==
    [name \in {f \in CandidatePool : CandidateFiles[f].kind = "table"} |->
        Cardinality({k \in DOMAIN FinancialKeywords :
            Contains(TableText(CandidateFiles[name].rows), FinancialKeywords[k])})]
NumericToken ==
    [name \in {f \in CandidatePool : CandidateFiles[f].kind = "table"} |->
        \E r \in DOMAIN CandidateFiles[name].rows :
            \E c \in DOMAIN CandidateFiles[name].rows[r] :
                \E x \in DOMAIN CandidateFiles[name].rows[r][c] :
                    CandidateFiles[name].rows[r][c][x] \in DigitChars]
LargeWithKeyword(i) ==
    Loadable(i) /\ RowCount(tables[i]) >= 10 /\ KeywordCount[tables[i]] >= 1

\* C11 as stated: when some candidate has at least 10 rows and a financial
\* keyword, the selected candidate never has fewer than 10 rows.
C11_Original_NeverSmallOverLarge ==
    (select_pc = "returned" /\ \E j \in DOMAIN tables : LargeWithKeyword(j)) =>
        /\ Loadable(best_index + 1)
        /\ RowCount(tables[best_index + 1]) >= 10

\* C11 amended: when some candidate has at least 10 rows and a financial
\* keyword, the selected candidate is loadable and is never one with fewer
\* than 10 rows and fewer than 3 distinct financial keywords.
C11_NeverKeywordPoorSmallOverLarge ==
    (select_pc = "returned" /\ \E j \in DOMAIN tables : LargeWithKeyword(j)) =>
        /\ Loadable(best_index + 1)
        /\ ~(RowCount(tables[best_index + 1]) < 10 /\ KeywordCount[tables[best_index + 1]] < 3)

\* a 9-row table with two keywords and numbers stands before a 10-row table
\* with one keyword, and the 10-row table is returned
C11_Witness ==
    /\ select_pc = "returned"
    /\ Len(tables) >= 2
    /\ tables[1] = "profit9"
    /\ LargeWithKeyword(best_index + 1)
    /\ best_index >= 1

\* C12: the score of every loaded candidate is a function of that table
\* alone: 2 * min(rows, 50), plus 10 per distinct vocabulary keyword in its
\* text, plus 20 if the text holds a numeric token, minus 30 if it has fewer
\* than 10 rows, whatever its position and whatever the other candidates.
C12_ScoreIsLocalFormula ==
    \A i \in DOMAIN scored :
        scored[i].ok =>
            LET n == RowCount(tables[i])
            IN scored[i].score =
                   2 * (IF n <= 50 THEN n ELSE 50)
                   + 10 * KeywordCount[tables[i]]
                   + (IF NumericToken[tables[i]] THEN 20 ELSE 0)
                   - (IF n < 10 THEN 30 ELSE 0)

\* a table of more than 50 rows was scored after another candidate
C12_Witness ==
    \E i \in DOMAIN scored :
        /\ i >= 2
        /\ scored[i].ok
        /\ RowCount(tables[i]) > 50
        /\ KeywordCount[tables[i]] >= 1
        /\ NumericToken[tables[i]]

\* C13 as stated: a candidate whose file is missing, holds no table or made
\* the analysis fail is never the returned index when some other candidate
\* could be loaded.
C13_SkippedNeverReturned ==
    (select_pc = "returned" /\ \E i \in DOMAIN tables : Loadable(i)) =>
        Loadable(best_index + 1)

----------------------------------------------------------------------------
(* Properties of find_target_page (checked under SpecPage)                 *)

\* what the statements about the pages speak of, per page of the pool: a
\* match of an explicit-standalone pattern, a match of a generic pattern, the
\* presence of the word "consolidated" in the lower-cased text
ExplicitMatch ==
    [name \in PagePool |-> SearchAny(TARGET_HEADINGS_WITH_STANDALONE, TextLower(PageFiles[name]))]
GenericMatch ==
    [name \in PagePool |-> SearchAny(TARGET_HEADINGS_GENERIC, TextLower(PageFiles[name]))]
HasConsolidated ==
    [name \in PagePool |-> Contains(TextLower(PageFiles[name]), S_Consolidated)]
IsExplicit(i) == ExplicitMatch[pages[i]]
IsCleanGeneric(i) == ~HasConsolidated[pages[i]] /\ GenericMatch[pages[i]]
IsConsolidatedOnly(i) ==
    HasConsolidated[pages[i]] /\ GenericMatch[pages[i]] /\ ~ExplicitMatch[pages[i]]
Eligible(i) == IsExplicit(i) \/ IsCleanGeneric(i)
Least(S) == CHOOSE i \in S : \A j \in S : i <= j

\* C15: find_target_page returns the smallest page index whose page matches
\* an explicit-standalone pattern, whatever else the page holds, or does not
\* contain "consolidated" and matches a generic pattern; on the returned page
\* the explicit-standalone rule is the one that is tried first.
C15_ReturnsFirstEligiblePage ==
    (page_pc = "returned" /\ \E i \in DOMAIN pages : Eligible(i)) =>
        /\ target_page.found
        /\ target_page.index + 1 = Least({i \in DOMAIN pages : Eligible(i)})
        /\ page_rule[Len(page_rule)] =
               IF IsExplicit(target_page.index + 1) THEN "explicit" ELSE "generic"

\* a page that names both statements and matches an explicit-standalone
\* pattern was returned after a page of the consolidated statement
C15_Witness ==
    /\ page_pc = "returned"
    /\ target_page.found
    /\ target_page.index >= 1
    /\ IsExplicit(target_page.index + 1)
    /\ HasConsolidated[pages[target_page.index + 1]]
    /\ IsConsolidatedOnly(1)

\* C16 as stated: when the PDF holds a page with an explicit-standalone match
\* and another page that matches only as a consolidated statement, the
\* returned index is that of a page with an explicit-standalone match.
C16_Original_ReturnsExplicitStandalone ==
    (/\ page_pc = "returned"
     /\ \E e \in DOMAIN pages : IsExplicit(e)
     /\ \E c \in DOMAIN pages : IsConsolidatedOnly(c)) =>
        /\ target_page.found
        /\ IsExplicit(target_page.index + 1)
        /\ ~IsConsolidatedOnly(target_page.index + 1)

\* C16 amended: in such a PDF the consolidated page is never returned, and
\* the returned page is the first page with an explicit-standalone match
\* unless an earlier page without the word "consolidated" matches a generic
\* pattern, in which case the first such page is returned.
C16_NeverConsolidatedPage ==
    (/\ page_pc = "returned"
     /\ \E e \in DOMAIN pages : IsExplicit(e)
     /\ \E c \in DOMAIN pages : IsConsolidatedOnly(c)) =>
        LET first_explicit == Least({e \in DOMAIN pages : IsExplicit(e)})
            earlier == {g \in 1..(first_explicit - 1) : IsCleanGeneric(g)}
        IN /\ target_page.found
           /\ ~IsConsolidatedOnly(target_page.index + 1)
           /\ target_page.index + 1 = IF earlier = {} THEN first_explicit ELSE Least(earlier)

\* the page of the consolidated statement comes first and the page of the
\* standalone statement, which comes later, is the one returned
C16_Witness ==
    /\ page_pc = "returned"
    /\ target_page.found
    /\ target_page.index >= 1
    /\ IsConsolidatedOnly(1)
    /\ IsExplicit(target_page.index + 1)
    /\ ~HasConsolidated[pages[target_page.index + 1]]

\* C17: find_target_page returns None exactly when no page matches either
\* rule; a page without text or with an empty text takes no rule and the
\* scan goes on to the pages after it.
C17_NoneIffNoPageMatches ==
    /\ page_pc = "returned" =>
           (~target_page.found <=> \A i \in DOMAIN pages : ~Eligible(i))
    /\ \A i \in DOMAIN page_rule :
           pages[i] \in {"no_text", "empty"} =>
               /\ page_rule[i] = "none"
               /\ page_pc = "returned" => (target_page.found \/ Len(page_rule) = Len(pages))

\* None was returned for a PDF of several pages, one of them without text
\* and one of them a consolidated statement
C17_Witness ==
    /\ page_pc = "returned"
    /\ ~target_page.found
    /\ Len(pages) >= 2
    /\ \E i \in DOMAIN pages : pages[i] = "no_text"
    /\ \E i \in DOMAIN pages : IsConsolidatedOnly(i)

\* the pieces of a pattern stand in the text in order, whatever lies between
\* them, line breaks included
WordsInOrder(pattern, text) == PiecesFrom(text, pattern, 1, 1)
HeadingWordsInOrder ==
    [name \in PagePool |->
        \E k \in DOMAIN TARGET_HEADINGS_WITH_STANDALONE :
            WordsInOrder(TARGET_HEADINGS_WITH_STANDALONE[k], TextLower(PageFiles[name]))]

\* C18 as stated: a page whose lower-cased text holds the words of an
\* explicit-standalone heading pattern in order takes the explicit rule,
\* whatever whitespace or line noise lies between the words, also when the
\* words are spread over several lines of the page text.
C18_HeadingMatchesAcrossLines ==
    \A i \in DOMAIN page_rule :
        HeadingWordsInOrder[pages[i]] => page_rule[i] = "explicit"

----------------------------------------------------------------------------
(* Properties of process_pdf_document (checked under SpecProcess)          *)

Done(r) == proc[r].pc = "returned"
Selected(r) == proc[r].pc \in {"parse", "save", "dump", "returned"}

\* C14: for a document without tables nothing is selected, and for a
\* document of exactly one table, table 1 (index 0) is selected without any
\* score being computed.
C14_EmptyAndSingleShortCircuit ==
    \A r \in DOMAIN proc :
        Selected(r) =>
            /\ Len(proc[r].tables) = 0 =>
                   proc[r].selected_html = 0 /\ proc[r].scores = 0
            /\ Len(proc[r].tables) = 1 =>
                   /\ proc[r].selected_html = 1
                   /\ proc[r].selected_table = 1
                   /\ proc[r].selection_method = "single_table"
                   /\ proc[r].scores = 0

\* a request with a single table has returned the record parsed from it,
\* and the other request has selected nothing for a document without tables
C14_Witness ==
    \E r, q \in DOMAIN proc :
        /\ Done(r)
        /\ Len(proc[r].tables) = 1
        /\ proc[r].json_result.present
        /\ Selected(q)
        /\ Len(proc[q].tables) = 0

\* the selection and the record of a call that runs alone on the tables doc
AloneSelected(doc) ==
    IF Len(doc) = 0 THEN 0
    ELSE IF Len(doc) = 1 THEN 1
    ELSE LET good == {i \in DOMAIN doc : DocScore[doc[i]] > -1}
             top == {i \in good : \A j \in good : DocScore[doc[j]] <= DocScore[doc[i]]}
         IN IF good = {} THEN 1 ELSE CHOOSE i \in top : \A j \in top : i <= j
AloneRecord(doc, secs) ==
    IF AloneSelected(doc) = 0 THEN NoRecord
    ELSE WithMetadata(ParsedRecord[doc[AloneSelected(doc)]],
                      [selected_table |-> AloneSelected(doc), tables |-> doc,
                       doc_conversion_secs |-> secs])

\* C19 as stated: whatever the interleaving of two requests, also for the
\* same company and file stem, the record a request returns is the record
\* it returns when it runs alone.
C19_RecordAsWhenAlone ==
    \A r \in DOMAIN proc :
        Done(r) => proc[r].json_result =
                       AloneRecord(proc[r].tables, proc[r].doc_conversion_secs)

\* C20 as stated: a document without tables makes process_pdf_document fail:
\* success is false, and success is never reported with a missing record.
C20_NoTablesIsHardFailure ==
    \A r \in DOMAIN proc :
        Done(r) =>
            /\ Len(proc[r].tables) = 0 => ~proc[r].success
            /\ ~(proc[r].success /\ ~proc[r].json_result.present)

----------------------------------------------------------------------------
(* Order of the record (checked under Spec)                                *)

\* the processed fields for which a row was resolved, in configuration order
ResolvedFields == {i \in Processed : Resolved(i)}

\* C29: financial_data is an order-preserving subsequence of the configured
\* fields: one entry per field for which a row was resolved and none for the
\* others, each with the configured key, in configuration order.
C29_RecordIsSubsequenceOfConfig ==
    parse_pc \in {"loop", "returned"} =>
        /\ Len(financial_data) = Cardinality(ResolvedFields)
        /\ \A i \in ResolvedFields : EntryOf(i).key = ItemAt(i)["key"]
        /\ \A e \in DOMAIN financial_data :
               \E i \in ResolvedFields : EntryIndex(i) = e
        /\ \A i, j \in ResolvedFields : i < j => EntryIndex(i) < EntryIndex(j)

\* two fields were resolved and the record holds their keys in configured order
C29_Witness ==
    /\ parse_pc = "returned"
    /\ Len(resolution) = 2
    /\ Resolved(1)
    /\ Resolved(2)
    /\ Len(financial_data) = 2
    /\ financial_data[1].key = FieldKeys[1]
    /\ financial_data[2].key = FieldKeys[2]

----------------------------------------------------------------------------
(* The copies of the extraction step in service.py and test_parser.py      *)

\* service.py lines 135-143: the display label of a row matched by tr_number
Service_Particular(cells, layout, labels, key) ==
    LET label_col_index == DictGet(layout, "label", 2) - 1
        particular == IF label_col_index < Len(cells)
                      THEN CellText(cells[label_col_index + 1])
                      ELSE <<>>
    IN IF particular # <<>> THEN particular
       ELSE IF labels # <<>> THEN labels[1]
       ELSE key

\* service.py lines 145-154: the values dict of a row matched by tr_number
Service_Values(cells, layout) ==
    [date_key \in DOMAIN layout \ {"label"} |->
        IF layout[date_key] <= Len(cells)
        THEN CellText(cells[layout[date_key]])
        ELSE <<>>]

\* service.py lines 157-161
Service_Entry(cells, layout, item) ==
    [particular |-> Service_Particular(cells, layout, item["labels"], item["key"]),
     key |-> item["key"],
     values |-> Service_Values(cells, layout)]

\* test_parser.py lines 71-79: label_col_index is the ordinal itself and
\* indexes the 0-based list of cells
TestParser_Particular(cells, layout, labels, key) ==
    LET label_col_index == DictGet(layout, "label", 2)
        particular == IF label_col_index < Len(cells)
                      THEN CellText(cells[label_col_index + 1])
                      ELSE <<>>
    IN IF particular # <<>> THEN particular
       ELSE IF labels # <<>> THEN labels[1]
       ELSE key

\* test_parser.py lines 81-90: cells[col_index] on the 0-based list of cells
TestParser_Values(cells, layout) ==
    [date_key \in DOMAIN layout \ {"label"} |->
        IF layout[date_key] < Len(cells)
        THEN CellText(cells[layout[date_key] + 1])
        ELSE <<>>]

\* test_parser.py lines 93-97
TestParser_Entry(cells, layout, item) ==
    [particular |-> TestParser_Particular(cells, layout, item["labels"], item["key"]),
     key |-> item["key"],
     values |-> TestParser_Values(cells, layout)]

\* the fields resolved directly and read with the company's default layout
DirectDefault ==
    {i \in Processed : resolution[i].strategy = "direct" /\ "column_layout" \notin DOMAIN ItemAt(i)}

\* C23 as stated: for a field resolved directly with the default layout the
\* entry of parser_core is the one service.py and test_parser.py compute for
\* the same row: all three read the cell at the 1-based ordinal.
C23_ThreeCopiesAgree ==
    \A i \in DirectDefault :
        /\ EntryOf(i) = Service_Entry(RowOf(i), DefaultLayout, ItemAt(i))
        /\ EntryOf(i) = TestParser_Entry(RowOf(i), DefaultLayout, ItemAt(i))

----------------------------------------------------------------------------
(* FinancialExcelGenerator: _parse_number, _build_data_map, _get_value,     *)
(* generate_excel and generate_csv                                         *)

\* JSON values: a string, a number (num is 0 for zero and not 0 for any other
\* number), a list of len items, a boolean, null, or an object with the given
\* items
JStr(s) == [type |-> "str", str |-> s, num |-> 0, len |-> 0, bool |-> FALSE]
JNum(n) == [type |-> "num", str |-> <<>>, num |-> n, len |-> 0, bool |-> FALSE]
JList(n) == [type |-> "list", str |-> <<>>, num |-> 0, len |-> n, bool |-> FALSE]
JBool(b) == [type |-> "bool", str |-> <<>>, num |-> 0, len |-> 0, bool |-> b]
JNull == [type |-> "null", str |-> <<>>, num |-> 0, len |-> 0, bool |-> FALSE]
JDict(d) ==
    [type |-> "dict", str |-> <<>>, num |-> 0, len |-> Cardinality(DOMAIN d), bool |-> FALSE,
     items |-> d]

\* Python truth value of a JSON value
Truthy(v) ==
    CASE v.type = "str" -> v.str # <<>>
      [] v.type = "num" -> v.num # 0
      [] v.type \in {"list", "dict"} -> v.len > 0
      [] v.type = "bool" -> v.bool
      [] OTHER -> FALSE

\* data.get(key, default)
Get(fields, key, default) == IF key \in DOMAIN fields THEN fields[key] ELSE default

\* A float is modelled by the decimal number it is read from: num / 10^scale
\* with scale >= 0 and no trailing decimal zero, or an infinity, or nan.
Number(n, k) == [kind |-> "num", num |-> n, scale |-> k]

\* 0.0
Zero == Number(0, 0)

RECURSIVE Normalized(_, _)
\* the representation of num / 10^scale
Normalized(num, scale) ==
    IF num = 0 THEN Zero
    ELSE IF scale < 0 THEN Normalized(num * 10, scale + 1)
    ELSE IF scale > 0 /\ num % 10 = 0 THEN Normalized(num \div 10, scale - 1)
    ELSE Number(num, scale)

DigitValue ==
    ("0" :> 0) @@ ("1" :> 1) @@ ("2" :> 2) @@ ("3" :> 3) @@ ("4" :> 4) @@
    ("5" :> 5) @@ ("6" :> 6) @@ ("7" :> 7) @@ ("8" :> 8) @@ ("9" :> 9)

RECURSIVE NatOf(_)
\* the value of a sequence of decimal digits
NatOf(ds) ==
    IF ds = <<>> THEN 0 ELSE NatOf(SubSeq(ds, 1, Len(ds) - 1)) * 10 + DigitValue[ds[Len(ds)]]

IsDigit(c) == c \in DigitChars

RECURSIVE DigitPartEnd(_, _)
\* s[i] is a digit: the last position of the digit part that starts at i
\* (digits, with single underscores between digits)
DigitPartEnd(s, i) ==
    IF i + 1 <= Len(s) /\ IsDigit(s[i + 1]) THEN DigitPartEnd(s, i + 1)
    ELSE IF i + 2 <= Len(s) /\ s[i + 1] = "_" /\ IsDigit(s[i + 2]) THEN DigitPartEnd(s, i + 2)
    ELSE i

\* the last position of the digit part that starts at i; i - 1 if there is none
DigitEnd(s, i) == IF i <= Len(s) /\ IsDigit(s[i]) THEN DigitPartEnd(s, i) ELSE i - 1

\* the digits of s[a..b]
DigitsIn(s, a, b) == SelectSeq(SubSeq(s, a, b), IsDigit)

S_Inf == <<"i","n","f">>
S_Infinity == <<"i","n","f","i","n","i","t","y">>
S_Nan == <<"n","a","n">>

\* the white space float() drops around a numeral: that of str.strip but for
\* the separators U+001C to U+001F
FloatSpaceChars == {"\t","\n","U+000B","\f","\r"," ","U+0085","U+00A0","U+1680","U+2000",
                    "U+2001","U+2002","U+2003","U+2004","U+2005","U+2006","U+2007","U+2008",
                    "U+2009","U+200A","U+2028","U+2029","U+202F","U+205F","U+3000"}

FloatStrip(s) ==
    LET keep == {i \in DOMAIN s : s[i] \notin FloatSpaceChars}
        lo == CHOOSE i \in keep : \A j \in keep : i <= j
        hi == CHOOSE i \in keep : \A j \in keep : i >= j
    IN IF keep = {} THEN <<>> ELSE SubSeq(s, lo, hi)

\* float(s): [ok, value]; ok is FALSE where Python raises ValueError.
\* Surrounding whitespace is dropped; then an optional sign and either
\* inf, infinity or nan in any case, or digits with an optional fraction and
\* an optional exponent.
Float(s) ==
    LET t == FloatStrip(s)
        signed == t # <<>> /\ t[1] \in {"+", "-"}
        neg == signed /\ t[1] = "-"
        b == IF signed THEN 2 ELSE 1
        word == Lower(SubSeq(t, b, Len(t)))
        ie == DigitEnd(t, b)
        has_dot == ie + 1 <= Len(t) /\ t[ie + 1] = "."
        fe == IF has_dot THEN DigitEnd(t, ie + 2) ELSE ie
        has_int == ie >= b
        has_frac == has_dot /\ fe >= ie + 2
        m_end == IF has_dot THEN fe ELSE ie
        has_exp == m_end + 1 <= Len(t) /\ t[m_end + 1] \in {"e", "E"}
        x_signed == has_exp /\ m_end + 2 <= Len(t) /\ t[m_end + 2] \in {"+", "-"}
        xd == IF x_signed THEN m_end + 3 ELSE m_end + 2
        xe == IF has_exp THEN DigitEnd(t, xd) ELSE m_end
        int_digits == IF has_int THEN DigitsIn(t, b, ie) ELSE <<>>
        frac_digits == IF has_frac THEN DigitsIn(t, ie + 2, fe) ELSE <<>>
        exponent == IF has_exp /\ xe >= xd
                    THEN (IF x_signed /\ t[m_end + 2] = "-" THEN -1 ELSE 1) * NatOf(DigitsIn(t, xd, xe))
                    ELSE 0
        magnitude == NatOf(int_digits \o frac_digits)
    IN IF word \in {S_Inf, S_Infinity}
       THEN [ok |-> TRUE, value |-> [kind |-> IF neg THEN "-inf" ELSE "inf", num |-> 0, scale |-> 0]]
       ELSE IF word = S_Nan
       THEN [ok |-> TRUE, value |-> [kind |-> "nan", num |-> 0, scale |-> 0]]
       ELSE IF (has_int \/ has_frac) /\ (has_exp => xe >= xd) /\ xe = Len(t)
       THEN [ok |-> TRUE,
             value |-> Normalized(IF neg THEN -magnitude ELSE magnitude,
                                  Len(frac_digits) - exponent)]
       ELSE [ok |-> FALSE, value |-> Zero]

\* line 61: brackets for negatives
Unbracket(value) ==
    IF value # <<>> /\ value[1] = "(" /\ value[Len(value)] = ")"
    THEN <<"-">> \o SubSeq(value, 2, Len(value) - 1)
    ELSE value

\* line 64: value.replace(',', '')
IsNotComma(c) == c # ","
RemoveCommas(value) == SelectSeq(value, IsNotComma)

\* the outcome of a call that raises AttributeError
AttributeError == [kind |-> "AttributeError", num |-> 0, scale |-> 0]

\* lines 57-69 of _parse_number: a string that is not blank
ParseString(value) ==
    LET f == Float(RemoveCommas(Unbracket(Strip(value))))
    IN IF f.ok THEN f.value ELSE Zero

\* line 54 tests "not value or value.strip() == ''": a value that is not
\* falsy and is no string has no strip, and the test raises AttributeError
\* before the try of line 66
StripRaises(value) == Truthy(value) /\ value.type # "str"

\* lines 52-69: FinancialExcelGenerator._parse_number
ParseNumber(value) ==
    IF ~Truthy(value) THEN Zero
    ELSE IF StripRaises(value) THEN AttributeError
    ELSE IF Strip(value.str) = <<>> THEN Zero
    ELSE ParseString(value.str)

\* lines 38-41
KEY_ALIASES ==
    ("sale_of_products" :> "sale_of_goods") @@ ("sale_of_goods" :> "sale_of_goods")

\* lines 48-50: _normalize_key
NormalizeKey(key) == DictGet(KEY_ALIASES, key, key)

RECURSIVE BuildDataMapFrom(_, _)
\* lines 93-99: the for loop of _build_data_map; a later item replaces an
\* earlier one of the same normalized key, an item without a key is skipped
BuildDataMapFrom(items, dm) ==
    IF items = <<>> THEN dm
    ELSE LET item == Head(items)
             key == NormalizeKey(Get(item, "key", ""))
             values == Get(item, "values", JDict(<<>>))
         IN BuildDataMapFrom(Tail(items), IF key # "" THEN (key :> values) @@ dm ELSE dm)

\* lines 89-99: _build_data_map starts from an empty map
BuildDataMap(items) == BuildDataMapFrom(items, <<>>)

\* lines 103-109: the _get_value calls that raise: values.get of line 108
\* when the values of the item are no object, _parse_number of line 109 when
\* the stored value has no strip
GetValueRaises(dm, key, period) ==
    LET normalized_key == NormalizeKey(key)
    IN /\ normalized_key \in DOMAIN dm
       /\ \/ dm[normalized_key].type # "dict"
          \/ StripRaises(Get(dm[normalized_key].items, period, JStr(<<>>)))

\* lines 101-110: _get_value
GetValueResult(dm, key, period) ==
    LET normalized_key == NormalizeKey(key)
    IN IF normalized_key \in DOMAIN dm
       THEN LET values == dm[normalized_key]
            IN IF values.type # "dict" THEN AttributeError
               ELSE ParseNumber(Get(values.items, period, JStr(<<>>)))
       ELSE Zero

\* lines 23-35: the keys of PERIOD_MAPPING
Periods ==
    {"30.06.2025", "31.03.2025_Y", "31.03.2025", "31.12.2024", "30.09.2024", "30.06.2024",
     "31.03.2024_Y", "31.03.2024", "31.12.2023", "30.09.2023", "30.06.2023"}

\* lines 239-300 and 380-434: the keys of the rows generate_excel and
\* generate_csv write
RowKeys ==
    {"sale_of_goods", "export_sales", "service_revenue", "other_operating_revenues",
     "revenue_from_operations", "other_income", "total_income", "cost_of_materials_consumed",
     "excise_duty", "purchases_stock_in_trade", "changes_in_inventories",
     "employee_benefits_expense", "finance_costs", "depreciation_amortisation_expense",
     "other_expense", "advertising_expense", "impairment_losses", "total_expenses",
     "profit_before_exceptional_and_tax", "exceptional_item_expense", "profit_before_tax",
     "current_tax", "deferred_tax", "total_tax_expense", "net_profit", "ebitda"}

\* lines 177-206, 367-377: a row calls _get_value for every period; the rows
\* fail when one of the calls raises
RowsRaise(dm) ==
    \E key \in RowKeys, period \in Periods : GetValueRaises(dm, key, period)

\* stored strings: blanks, brackets, signs, thousands separators, fractions,
\* exponents and text that is no number
LeadPool == { <<>>, <<" ">>, <<"U+00A0">>, <<"U+001F">> }
SignPool == { <<>>, <<"-">>, <<"+">> }
IntPool ==
    { <<>>, <<"0">>, <<"1","2">>, <<"1",",","2","3","4">>, <<"4",",","3","5","7">>,
      <<"1","_","0">>, <<"a","b">> }
FracPool == { <<>>, <<".">>, <<".","5">>, <<".","9","0">>, <<"e","2">> }
Composed(lead, bracket, sign, int, frac) ==
    lead \o (IF bracket THEN <<"(">> ELSE <<>>) \o sign \o int \o frac
         \o (IF bracket THEN <<")">> ELSE <<>>) \o lead
ValuePool ==
    { Composed(l, b, g, i, f) :
        l \in LeadPool, b \in BOOLEAN, g \in SignPool, i \in IntPool, f \in FracPool }
    \cup { S_Nan, <<"(">> \o S_Inf \o <<")">>, <<"I","n","f","i","n","i","t","y">>,
           <<"(", " ", "5", " ", ")">>, <<"1", ".", "2", ".", "3">>, <<"1", "E", "-", "2">> }

\* stored values that are no strings: JSON numbers, lists, booleans, null
\* and objects
OtherValues ==
    {JNum(0), JNum(5), JList(0), JList(1), JBool(FALSE), JBool(TRUE), JNull,
     JDict(<<>>), JDict("a" :> JNum(1))}

\* the values of a record as stored: strings, or what a JSON document holds
StoredValues == {JStr(s) : s \in ValuePool} \cup OtherValues

\* an item of financial_data with a key and values
Item(key, values) == ("key" :> key) @@ ("values" :> values)

\* a values object with one period
OnePeriod(period, value) == JDict(period :> value)

S_7 == <<"(", "7", ")">>
S_12 == <<"1", "2">>

\* JSON documents passed to generate_excel and generate_csv: both spellings
\* of the sales key, a key no row shows, items without key or values, an
\* empty key, a number as value, values that are no object, no
\* financial_data at all
JsonPool ==
    { ("financial_data" :>
          << Item("sale_of_products", OnePeriod("30.06.2025", JStr(S_7))),
             Item("pbt", OnePeriod("30.06.2025", JStr(<<"1">>))) >>),
      ("company_name" :> "HUL") @@
      ("financial_data" :> << Item("pbt", OnePeriod("30.06.2025", JStr(<<"1">>))) >>),
      ("company_name" :> "HUL"),
      ("financial_data" :>
          << Item("sale_of_goods", OnePeriod("30.06.2025", JStr(S_12))),
             Item("sale_of_products", OnePeriod("30.06.2025", JStr(S_7))) >>),
      ("financial_data" :> << Item("sale_of_goods", OnePeriod("30.06.2025", JNum(12))) >>),
      ("financial_data" :> << Item("pbt", OnePeriod("30.06.2025", JNum(12))) >>),
      ("financial_data" :> << Item("net_profit", OnePeriod("FY2020", JList(1))) >>),
      ("financial_data" :> << Item("net_profit", JStr(S_12)) >>),
      ("financial_data" :>
          << Item("", OnePeriod("30.06.2025", JStr(S_12))),
             ("values" :> OnePeriod("30.06.2025", JStr(S_7))),
             ("key" :> "net_profit") >>) }

\* the keys and periods _get_value is called with
QueryKeys == {"sale_of_goods", "sale_of_products", "pbt", "net_profit"}
QueryPeriods == {"30.06.2025", "31.03.2025"}

\* lines 101-110: a _get_value call, which returns a number or raises
GetValue ==
    \E key \in QueryKeys, period \in QueryPeriods :
        /\ get_args' = [key |-> key, period |-> period]
        /\ get_result' = GetValueResult(data_map, key, period)
        /\ get_pc' = IF get_result' = AttributeError THEN "raised" ELSE "returned"
        /\ UNCHANGED <<data_map, gen_company_name, generated, core_vars, update_vars, fm_vars>>

\* lines 220-325, 339-449: generate_excel and generate_csv. The data map is
\* rebuilt from the document before anything else can fail; the rows are
\* then filled through _get_value and the file is written. Every exception
\* is caught and makes the call return False.
Generate(op) ==
    \E json_data \in JsonPool, written \in BOOLEAN :
        /\ gen_company_name' = Get(json_data, "company_name", "Financial Statement")
        /\ data_map' = BuildDataMap(Get(json_data, "financial_data", <<>>))
        /\ generated' = [op |-> op, result |-> ~RowsRaise(data_map') /\ written]
        /\ get_args' = <<>>
        /\ get_pc' = "idle"
        /\ get_result' = Zero
        /\ UNCHANGED <<core_vars, update_vars, fm_vars>>

\* lines 208-325
GenerateExcel == Generate("generate_excel")

\* lines 327-449
GenerateCsv == Generate("generate_csv")

\* a generator as constructed (lines 43-46), or one that has generated the
\* file of a record with one field and one period
InitExcel ==
    /\ ParseIdle
    /\ SelectIdle
    /\ PageIdle
    /\ ProcIdle
    /\ UpdateIdle
    /\ FmIdle
    /\ get_args = <<>>
    /\ get_pc = "idle"
    /\ get_result = Zero
    /\ \/ /\ data_map = <<>>
          /\ gen_company_name = ""
          /\ generated = [op |-> "none", result |-> FALSE]
       \/ \E v \in StoredValues, op \in {"generate_excel", "generate_csv"} :
             /\ data_map = BuildDataMap(<<Item("sale_of_goods", OnePeriod("30.06.2025", v))>>)
             /\ gen_company_name = "Financial Statement"
             /\ generated = [op |-> op, result |-> ~RowsRaise(data_map)]

NextExcel ==
    \/ GetValue
    \/ GenerateExcel
    \/ GenerateCsv

SpecExcel == InitExcel /\ [][NextExcel]_vars

----------------------------------------------------------------------------
(* Properties of _parse_number (checked under SpecExcel)                   *)

\* the stored value a _get_value call reads, if the key and period are there
Found ==
    /\ NormalizeKey(get_args.key) \in DOMAIN data_map
    /\ data_map[NormalizeKey(get_args.key)].type = "dict"
    /\ get_args.period \in DOMAIN data_map[NormalizeKey(get_args.key)].items
StoredValue == data_map[NormalizeKey(get_args.key)].items[get_args.period]

\* the call read a stored string
FoundString == Found /\ StoredValue.type = "str"

Negated(x) == [x EXCEPT !.num = -x.num]

\* an unsigned numeral: a string float() accepts that starts with a digit or a point
UnsignedNumeral(x) == x # <<>> /\ (IsDigit(x[1]) \/ x[1] = ".") /\ Float(x).ok

\* what _parse_number makes of a string
OfString(s) == ParseNumber(JStr(s))

\* the rules of _parse_number for the value a returned call has read
ParsedByRule ==
    /\ get_result.kind \in {"num", "inf", "-inf", "nan"}
    /\ ~Found => get_result = Zero
    /\ Found /\ ~FoundString => get_result = Zero
    /\ FoundString =>
          LET v == StoredValue.str
              t == Strip(v)
          IN /\ t = <<>> => get_result = Zero
             /\ (Len(t) >= 3 /\ t[1] = "(" /\ t[Len(t)] = ")"
                    /\ UnsignedNumeral(RemoveCommas(SubSeq(t, 2, Len(t) - 1)))) =>
                   get_result = Negated(OfString(SubSeq(t, 2, Len(t) - 1)))
             /\ get_result = OfString(RemoveCommas(v))
             /\ (\A i \in DOMAIN t : ~IsDigit(t[i])) /\ Lower(t) \notin {S_Nan, S_Inf, S_Infinity,
                    <<"(">> \o S_Inf \o <<")">>} =>
                   get_result = Zero
             /\ v = <<"(", "1", ",", "2", "3", "4", ".", "9", "0", ")">> => get_result = Number(-12349, 1)
             /\ v = <<" ", "4", ",", "3", "5", "7", ".", "5", " ">> => get_result = Number(43575, 1)

\* C24: _parse_number never fails on any stored value: no call raises and
\* every call returns a number; a missing or blank string gives zero; "(x)"
\* for an unsigned numeral x gives the negation of the number x; a string
\* with thousands separators gives the number of the string without them; a
\* string that is no number gives zero.
C24_ParseNumberTotal ==
    /\ get_pc # "raised"
    /\ get_pc = "returned" => ParsedByRule

\* C24 for the stored values that are strings or falsy: a call that returns
\* follows the rules, and a call raises only when the values of the item are
\* no object or the stored value is neither a string nor falsy
C24_StringsParsed ==
    /\ get_pc = "returned" => ParsedByRule
    /\ get_pc = "raised" =>
          /\ NormalizeKey(get_args.key) \in DOMAIN data_map
          /\ Found => StoredValue.type # "str" /\ Truthy(StoredValue)

\* a bracketed value with a thousands separator was read as a negative number
C24_Witness ==
    /\ get_pc = "returned"
    /\ FoundString
    /\ StoredValue.str = <<"(", "1", ",", "2", "3", "4", ".", "9", "0", ")">>
    /\ get_result = Number(-12349, 1)

\* a stored JSON number made _get_value raise, and the generate call that
\* stored it returned False
C24_Raised ==
    /\ get_pc = "raised"
    /\ Found
    /\ StoredValue.type = "num"
    /\ ~generated.result

-----------------------------------------------------------------------------
(* FileManager: save_file, get_file, delete_file, cleanup_old_files, and   *)
(* the download endpoint of app.py. The server answers every request in a  *)
(* thread of its own and all of them share the one FileManager of app.py   *)
(* line 48, which takes no lock: a call is a sequence of steps, and the    *)
(* steps of two calls interleave between any two statements that read or   *)
(* write what the calls share: self.metadata and the storage directory.    *)

\* the ids uuid4 can produce, and the largest download count explored
MaxFileIds == 1
MaxDownloads == 2

FileIds == 1..MaxFileIds
FileTypes == {"excel", "csv"}

\* the threads that call the FileManager
Callers == {"c1", "c2"}

\* the callers of get_file: a thread, and the download endpoint with and
\* without preview
GetOps == {"get", "preview", "download"}

\* the entry save_file creates
NewEntry(file_id, file_type) ==
    [file_id |-> file_id, file_type |-> file_type, download_count |-> 0]

\* line 540: get_file's effect on the metadata of a known id
CountDownload(md, file_id) ==
    [md EXCEPT ![file_id].download_count = md[file_id].download_count + 1]

\* del self.metadata[file_id]
Without(md, ids) == [i \in DOMAIN md \ ids |-> md[i]]

RECURSIVE Among(_, _)
\* the ids of a sequence that are in a set, in the order of the sequence
Among(ids, set) ==
    IF ids = <<>> THEN <<>>
    ELSE (IF Head(ids) \in set THEN <<Head(ids)>> ELSE <<>>) \o Among(Tail(ids), set)

\* a thread that is in no call
NoCall ==
    [op |-> "none", pc |-> "done", file_id |-> 0, file_type |-> "", file_info |-> "",
     seen |-> 0, todo |-> <<>>, deleted_count |-> 0]

\* a thread in the call op for file_id, at the step pc
Call(op, pc, file_id) == [NoCall EXCEPT !.op = op, !.pc = pc, !.file_id = file_id]

\* what a call returned or raised, or the status of the response
FmResult(op, file_id, result, count) ==
    [op |-> op, file_id |-> file_id, result |-> result, download_count |-> count,
     deleted_count |-> 0]

\* the call of thread c ends
Returns(c, result) ==
    /\ fm_call' = [fm_call EXCEPT ![c] = NoCall]
    /\ fm_result' = result

\* the call of thread c goes on
GoesOn(c, call) ==
    /\ fm_call' = [fm_call EXCEPT ![c] = call]
    /\ UNCHANGED fm_result

\* app.py line 564: file_info['download_count'], read from the dict get_file
\* returned, which is the entry itself; the dict of a deleted entry keeps
\* the count it had
EntryCount(file_id) ==
    IF file_id \in DOMAIN metadata THEN metadata[file_id].download_count
    ELSE deleted_entries[file_id]

\* lines 501-509 of save_file: the file is copied into the storage under a
\* new id. stat or the copy may raise before anything is written (failed),
\* or the copy may raise after it has created the stored file (partial);
\* no entry is made then.
SaveFile ==
    \E c \in Callers, file_type \in FileTypes, copy \in {"failed", "partial", "copied"} :
        /\ fm_call[c].pc = "done"
        /\ IF copy = "failed"
           THEN /\ Returns(c, FmResult("save", 0, "OSError", 0))
                /\ UNCHANGED <<stored, get_calls>>
           ELSE /\ FileIds \ DOMAIN get_calls # {}
                /\ LET free == FileIds \ DOMAIN get_calls
                       file_id == CHOOSE i \in free : \A j \in free : i <= j
                   IN /\ stored' = stored \cup {file_id}
                      /\ get_calls' = (file_id :> 0) @@ get_calls
                      /\ IF copy = "partial"
                         THEN Returns(c, FmResult("save", file_id, "OSError", 0))
                         ELSE GoesOn(c, [Call("save", "entry", file_id) EXCEPT !.file_type = file_type])
        /\ UNCHANGED <<metadata, order, deleted_entries, core_vars, excel_vars, update_vars>>

\* lines 512-522 of save_file: the entry is added to self.metadata
SaveEntry ==
    \E c \in Callers :
        /\ fm_call[c].pc = "entry"
        /\ metadata' = (fm_call[c].file_id :> NewEntry(fm_call[c].file_id, fm_call[c].file_type))
                          @@ metadata
        /\ order' = Append(order, fm_call[c].file_id)
        /\ GoesOn(c, [fm_call[c] EXCEPT !.pc = "save_metadata"])
        /\ UNCHANGED <<stored, get_calls, deleted_entries, core_vars, excel_vars, update_vars>>

\* lines 478-485, called at lines 524, 541 and 584: _save_metadata prints
\* the metadata and writes metadata.json, and logs what the writing raises.
\* The file is read by no call, only when a FileManager is made (lines
\* 467-476), so what it holds is left out; the call waits for the console
\* and the file here, and other calls run meanwhile.
SaveMetadata ==
    \E c \in Callers :
        /\ fm_call[c].pc = "save_metadata"
        /\ GoesOn(c, [fm_call[c] EXCEPT !.pc = "return"])
        /\ UNCHANGED <<metadata, order, stored, get_calls, deleted_entries,
                       core_vars, excel_vars, update_vars>>

\* lines 525-527 of save_file: the id is logged and returned
SaveReturn ==
    \E c \in Callers :
        /\ fm_call[c].op = "save"
        /\ fm_call[c].pc = "return"
        /\ Returns(c, FmResult("save", fm_call[c].file_id, "saved", 0))
        /\ UNCHANGED <<metadata, order, stored, get_calls, deleted_entries,
                       core_vars, excel_vars, update_vars>>

\* line 539 of get_file, for the caller op: the test whether the id is
\* known. The call is counted in get_calls when it finds the id.
GetFileStep(c, op, file_id) ==
    /\ fm_call[c].pc = "done"
    /\ IF file_id \in DOMAIN metadata
       THEN /\ get_calls[file_id] < MaxDownloads
            /\ get_calls' = [get_calls EXCEPT ![file_id] = get_calls[file_id] + 1]
            /\ GoesOn(c, Call(op, "count", file_id))
       ELSE /\ GoesOn(c, Call(op, "none", file_id))
            /\ UNCHANGED get_calls
    /\ UNCHANGED <<metadata, order, stored, deleted_entries, core_vars, excel_vars, update_vars>>

\* get_file called directly
GetFile == \E c \in Callers, file_id \in FileIds : GetFileStep(c, "get", file_id)

\* GET /api/download-generated/<file_id> (app.py lines 538-544): the
\* endpoint calls get_file
DownloadGenerated ==
    \E c \in Callers, file_id \in FileIds, preview \in BOOLEAN :
        GetFileStep(c, IF preview THEN "preview" ELSE "download", file_id)

\* get_file hands file_info (the entry, None, or the KeyError it raised) to
\* its caller: a thread, or the endpoint, which goes on to answer
GetFileHands(c, call, file_info) ==
    IF call.op = "get"
    THEN Returns(c, FmResult("get", call.file_id, file_info,
                             IF file_info = "entry" THEN EntryCount(call.file_id) ELSE 0))
    ELSE GoesOn(c, [call EXCEPT !.pc = "respond", !.file_info = file_info])

\* line 540 of get_file: the download count of the entry is incremented;
\* the statement raises KeyError when the entry has been deleted since the
\* test of line 539
GetFileCount ==
    \E c \in Callers :
        LET call == fm_call[c]
        IN /\ call.pc = "count"
           /\ IF call.file_id \in DOMAIN metadata
              THEN /\ metadata' = CountDownload(metadata, call.file_id)
                   /\ GoesOn(c, [call EXCEPT !.pc = "save_metadata"])
              ELSE /\ GetFileHands(c, call, "KeyError")
                   /\ UNCHANGED metadata
           /\ UNCHANGED <<order, stored, get_calls, deleted_entries, core_vars, excel_vars, update_vars>>

\* line 542 of get_file: after the metadata is saved, the entry is read
\* again for the return value; the read raises KeyError when the entry has
\* been deleted meanwhile
GetFileReturn ==
    \E c \in Callers :
        LET call == fm_call[c]
        IN /\ call.op \in GetOps
           /\ call.pc = "return"
           /\ GetFileHands(c, call, IF call.file_id \in DOMAIN metadata THEN "entry" ELSE "KeyError")
           /\ UNCHANGED <<metadata, order, stored, get_calls, deleted_entries,
                          core_vars, excel_vars, update_vars>>

\* line 543 of get_file: None is returned for an id that line 539 did not find
GetFileNone ==
    \E c \in Callers :
        /\ fm_call[c].pc = "none"
        /\ GetFileHands(c, fm_call[c], "None")
        /\ UNCHANGED <<metadata, order, stored, get_calls, deleted_entries,
                       core_vars, excel_vars, update_vars>>

\* app.py lines 545-578 and 587-592: file_info is printed; without one the
\* answer is 404, and 500 when get_file raised; the preview answers with the
\* fields of the entry; the download tests that the stored file exists
Respond ==
    \E c \in Callers :
        LET call == fm_call[c]
        IN /\ call.pc = "respond"
           /\ IF call.file_info = "None"
              THEN Returns(c, FmResult(call.op, call.file_id, "404 File not found", 0))
              ELSE IF call.file_info = "KeyError"
              THEN Returns(c, FmResult(call.op, call.file_id, "500", 0))
              ELSE IF call.op = "preview"
              THEN Returns(c, FmResult("preview", call.file_id, "200", EntryCount(call.file_id)))
              ELSE IF call.file_id \in stored
              THEN GoesOn(c, [call EXCEPT !.pc = "send"])
              ELSE Returns(c, FmResult("download", call.file_id, "404 File not found on disk",
                                       EntryCount(call.file_id)))
           /\ UNCHANGED <<metadata, order, stored, get_calls, deleted_entries,
                          core_vars, excel_vars, update_vars>>

\* app.py lines 580-592: send_file opens the stored file, and raises when it
\* is no longer there
SendFile ==
    \E c \in Callers :
        LET call == fm_call[c]
        IN /\ call.pc = "send"
           /\ Returns(c, FmResult("download", call.file_id,
                                  IF call.file_id \in stored THEN "200" ELSE "500",
                                  EntryCount(call.file_id)))
           /\ UNCHANGED <<metadata, order, stored, get_calls, deleted_entries,
                          core_vars, excel_vars, update_vars>>

\* delete_file returns ok to its caller: the thread, or the loop of
\* cleanup_old_files (lines 615-620), which counts the deleted files and goes
\* on with the next id
DeleteReturns(c, call, ok) ==
    IF call.op = "delete"
    THEN Returns(c, FmResult("delete", call.file_id, IF ok THEN "True" ELSE "False", 0))
    ELSE LET n == call.deleted_count + (IF ok THEN 1 ELSE 0)
             rest == Tail(call.todo)
         IN IF rest = <<>>
            THEN Returns(c, [FmResult("cleanup", 0, "returned", 0) EXCEPT !.deleted_count = n])
            ELSE GoesOn(c, [call EXCEPT !.pc = "delete", !.file_id = Head(rest),
                                        !.todo = rest, !.deleted_count = n])

\* line 575 of delete_file: the test whether the id is known
DeleteTest(c, call) ==
    /\ GoesOn(c, [call EXCEPT !.pc = IF call.file_id \in DOMAIN metadata
                                     THEN "path" ELSE "false"])
    /\ UNCHANGED <<metadata, order, stored, get_calls, deleted_entries,
                   core_vars, excel_vars, update_vars>>

\* delete_file called by a thread (the delete endpoint, app.py line 630)
DeleteFile ==
    \E c \in Callers, file_id \in FileIds :
        /\ fm_call[c].pc = "done"
        /\ DeleteTest(c, Call("delete", "done", file_id))

\* line 578 of delete_file: the stored path is read from the entry; KeyError
\* when the entry has been deleted since the test, and the call goes to its
\* except branch
DeletePath ==
    \E c \in Callers :
        LET call == fm_call[c]
        IN /\ call.pc = "path"
           /\ GoesOn(c, [call EXCEPT !.pc = IF call.file_id \in DOMAIN metadata
                                            THEN "exists" ELSE "false"])
           /\ UNCHANGED <<metadata, order, stored, get_calls, deleted_entries,
                          core_vars, excel_vars, update_vars>>

\* line 579 of delete_file: stored_path.exists(); without the stored file
\* the call goes on to remove the entry
DeleteExists ==
    \E c \in Callers :
        LET call == fm_call[c]
        IN /\ call.pc = "exists"
           /\ GoesOn(c, [call EXCEPT !.pc = IF call.file_id \in stored
                                            THEN "unlink" ELSE "del"])
           /\ UNCHANGED <<metadata, order, stored, get_calls, deleted_entries,
                          core_vars, excel_vars, update_vars>>

\* line 580 of delete_file: stored_path.unlink(); it raises when the file
\* cannot be removed, and FileNotFoundError when another call has removed it
\* since exists(); then the call goes to its except branch
DeleteUnlink ==
    \E c \in Callers, unlinked \in BOOLEAN :
        LET call == fm_call[c]
        IN /\ call.pc = "unlink"
           /\ IF call.file_id \in stored /\ unlinked
              THEN /\ stored' = stored \ {call.file_id}
                   /\ GoesOn(c, [call EXCEPT !.pc = "del"])
              ELSE /\ GoesOn(c, [call EXCEPT !.pc = "false"])
                   /\ UNCHANGED stored
           /\ UNCHANGED <<metadata, order, get_calls, deleted_entries,
                          core_vars, excel_vars, update_vars>>

\* line 583 of delete_file: the entry is removed; del raises KeyError when
\* another call has removed the entry meanwhile
DeleteEntry ==
    \E c \in Callers :
        LET call == fm_call[c]
        IN /\ call.pc = "del"
           /\ IF call.file_id \in DOMAIN metadata
              THEN /\ metadata' = Without(metadata, {call.file_id})
                   /\ order' = Among(order, DOMAIN metadata \ {call.file_id})
                   /\ deleted_entries' = (call.file_id :> metadata[call.file_id].download_count)
                                            @@ deleted_entries
                   /\ GoesOn(c, [call EXCEPT !.pc = "save_metadata"])
              ELSE /\ GoesOn(c, [call EXCEPT !.pc = "false"])
                   /\ UNCHANGED <<metadata, order, deleted_entries>>
           /\ UNCHANGED <<stored, get_calls, core_vars, excel_vars, update_vars>>

\* lines 586-587 of delete_file: the deletion is logged and True is returned
DeleteReturn ==
    \E c \in Callers :
        /\ fm_call[c].op \in {"delete", "cleanup"}
        /\ fm_call[c].pc = "return"
        /\ DeleteReturns(c, fm_call[c], TRUE)
        /\ UNCHANGED <<metadata, order, stored, get_calls, deleted_entries,
                       core_vars, excel_vars, update_vars>>

\* lines 588-590 and 592 of delete_file: False is returned, for an unknown
\* id and after the error is logged
DeleteFalse ==
    \E c \in Callers :
        /\ fm_call[c].pc = "false"
        /\ DeleteReturns(c, fm_call[c], FALSE)
        /\ UNCHANGED <<metadata, order, stored, get_calls, deleted_entries,
                       core_vars, excel_vars, update_vars>>

\* lines 604-609 of cleanup_old_files: the loop over the entries begins;
\* without entries the call returns 0
CleanupOldFiles ==
    \E c \in Callers :
        /\ fm_call[c].pc = "done"
        /\ IF DOMAIN metadata = {}
           THEN Returns(c, FmResult("cleanup", 0, "returned", 0))
           ELSE GoesOn(c, [Call("cleanup", "scan", 0) EXCEPT !.seen = Cardinality(DOMAIN metadata)])
        /\ UNCHANGED <<metadata, order, stored, get_calls, deleted_entries,
                       core_vars, excel_vars, update_vars>>

\* lines 610-613: the loop collects the ids of the entries older than the
\* cutoff (old), in the order of the dict; it raises RuntimeError when the
\* dict has changed size since the loop began
CleanupScan ==
    \E c \in Callers :
        LET call == fm_call[c]
        IN /\ call.pc = "scan"
           /\ IF Cardinality(DOMAIN metadata) # call.seen
              THEN Returns(c, FmResult("cleanup", 0, "RuntimeError", 0))
              ELSE \E old \in SUBSET DOMAIN metadata :
                      LET files_to_delete == Among(order, old)
                      IN IF files_to_delete = <<>>
                         THEN Returns(c, FmResult("cleanup", 0, "returned", 0))
                         ELSE GoesOn(c, [call EXCEPT !.pc = "delete",
                                                     !.file_id = Head(files_to_delete),
                                                     !.todo = files_to_delete])
           /\ UNCHANGED <<metadata, order, stored, get_calls, deleted_entries,
                          core_vars, excel_vars, update_vars>>

\* lines 615-616: cleanup_old_files calls delete_file for the next id
CleanupDelete ==
    \E c \in Callers :
        /\ fm_call[c].pc = "delete"
        /\ DeleteTest(c, fm_call[c])

\* FileManager(storage_dir) on a storage directory without metadata.json
\* (lines 455-476), and no request under way
InitFileManager ==
    /\ ParseIdle
    /\ SelectIdle
    /\ PageIdle
    /\ ProcIdle
    /\ ExcelIdle
    /\ UpdateIdle
    /\ metadata = <<>>
    /\ order = <<>>
    /\ stored = {}
    /\ get_calls = <<>>
    /\ deleted_entries = <<>>
    /\ fm_call = [c \in Callers |-> NoCall]
    /\ fm_result = FmResult("none", 0, "none", 0)

NextFileManager ==
    \/ SaveFile
    \/ SaveEntry
    \/ SaveMetadata
    \/ SaveReturn
    \/ GetFile
    \/ DownloadGenerated
    \/ GetFileCount
    \/ GetFileReturn
    \/ GetFileNone
    \/ Respond
    \/ SendFile
    \/ DeleteFile
    \/ DeletePath
    \/ DeleteExists
    \/ DeleteUnlink
    \/ DeleteEntry
    \/ DeleteReturn
    \/ DeleteFalse
    \/ CleanupOldFiles
    \/ CleanupScan
    \/ CleanupDelete

SpecFileManager == InitFileManager /\ [][NextFileManager]_vars

-----------------------------------------------------------------------------
(* Properties of FileManager (checked under SpecFileManager)               *)

\* thread c takes a step of its call
Steps(c) == fm_call'[c] # fm_call[c]

\* thread c begins a get_file call in this step
GetBegins(c) == fm_call[c].pc = "done" /\ fm_call'[c].op \in GetOps

\* thread c begins a delete_file call in this step, for itself or within
\* cleanup_old_files
DeleteBegins(c) ==
    \/ fm_call[c].pc = "done" /\ fm_call'[c].op = "delete"
    \/ fm_call[c].pc = "delete" /\ Steps(c)

\* the get_file calls that have found the id and not yet counted themselves
\* (they are between line 539 and line 540)
Pending(id) ==
    Cardinality({c \in Callers : /\ fm_call[c].op \in GetOps
                                 /\ fm_call[c].pc = "count"
                                 /\ fm_call[c].file_id = id})

\* the id was given out by save_file and has no entry, nor is one on the way
Gone(id) ==
    /\ id \in DOMAIN get_calls \ DOMAIN metadata
    /\ \A c \in Callers : ~(fm_call[c].pc = "entry" /\ fm_call[c].file_id = id)

\* C28: in every state of a FileManager the download_count stored for a file
\* id equals the number of get_file calls made for that id since save_file
\* created it with count 0 (previews through the download endpoint count as
\* well). get_file holds no lock between its test (line 539) and its
\* increment (line 540): while one thread is between the two lines, every
\* other thread finds a count that is short of the calls made.
C28_Original_CountIsCallsMade ==
    \A id \in DOMAIN metadata : metadata[id].download_count = get_calls[id]

\* what get_file, save_file and delete_file do keep under every interleaving
\* of two threads: the download_count of every file equals the number of
\* get_file calls (previews included) that have found it since save_file
\* created it with count 0, less the calls that have found it and not yet
\* executed the increment; a get_file or delete_file call that finds its id unknown
\* returns None / False and leaves the metadata unchanged; when delete_file
\* returns True the id has no entry, it never has one again, and a get_file
\* call that begins after that returns None.
C28_DownloadCountIsGetCalls ==
    /\ [](\A id \in DOMAIN metadata :
             metadata[id].download_count = get_calls[id] - Pending(id))
    /\ [][/\ \A id \in DOMAIN metadata' \ DOMAIN metadata :
               /\ \E c \in Callers : /\ fm_call[c].op = "save"
                                     /\ fm_call[c].file_id = id
                                     /\ Steps(c)
               /\ metadata'[id].download_count = 0
               /\ get_calls'[id] = 0
          /\ \A id \in DOMAIN get_calls :
               get_calls'[id] # get_calls[id] =>
                   /\ get_calls'[id] = get_calls[id] + 1
                   /\ \E c \in Callers : GetBegins(c) /\ fm_call'[c].file_id = id
          /\ \A c \in Callers :
               GetBegins(c) =>
                   /\ metadata' = metadata
                   /\ IF fm_call'[c].file_id \in DOMAIN metadata
                      THEN /\ fm_call'[c].pc = "count"
                           /\ get_calls'[fm_call'[c].file_id] =
                                  get_calls[fm_call'[c].file_id] + 1
                      ELSE fm_call'[c].pc = "none"
          /\ \A c \in Callers :
               fm_call[c].pc = "none" /\ Steps(c) =>
                   /\ metadata' = metadata
                   /\ fm_call[c].op = "get" =>
                          fm_result' = FmResult("get", fm_call[c].file_id, "None", 0)
                   /\ fm_call[c].op # "get" =>
                          fm_call'[c] = [fm_call[c] EXCEPT !.pc = "respond", !.file_info = "None"]
          /\ \A c \in Callers :
               fm_call[c].pc = "respond" /\ fm_call[c].file_info = "None" /\ Steps(c) =>
                   /\ metadata' = metadata
                   /\ fm_result' = FmResult(fm_call[c].op, fm_call[c].file_id,
                                            "404 File not found", 0)
          /\ \A c \in Callers :
               DeleteBegins(c) /\ fm_call'[c].file_id \notin DOMAIN metadata =>
                   /\ metadata' = metadata
                   /\ fm_call'[c].pc = "false"
          /\ \A c \in Callers :
               fm_call[c].pc = "false" /\ Steps(c) =>
                   /\ metadata' = metadata
                   /\ fm_call[c].op = "delete" =>
                          fm_result' = FmResult("delete", fm_call[c].file_id, "False", 0)
          /\ \A c \in Callers :
               Steps(c) /\ fm_result'.op = "delete" /\ fm_result'.result = "True"
                        /\ fm_call'[c] = NoCall =>
                   /\ fm_call[c].op = "delete"
                   /\ fm_result'.file_id = fm_call[c].file_id
                   /\ Gone(fm_result.file_id)'
          /\ \A id \in FileIds : Gone(id) => Gone(id)'
          /\ \A c \in Callers, id \in FileIds :
               GetBegins(c) /\ fm_call'[c].file_id = id /\ Gone(id) => fm_call'[c].pc = "none"
         ]_vars

\* a file was previewed and downloaded, then deleted, and a later get_file
\* for its id returned None
C28_Witness ==
    /\ fm_result.op = "get"
    /\ fm_result.result = "None"
    /\ Gone(fm_result.file_id)
    /\ get_calls[fm_result.file_id] = 2
    /\ deleted_entries[fm_result.file_id] = 2

-----------------------------------------------------------------------------
(* app.py: POST /api/update-financial-data                                 *)

UpperOf == [c \in {LowerChars[i] : i \in DOMAIN LowerChars} |->
              UpperChars[CHOOSE i \in DOMAIN LowerChars : LowerChars[i] = c]]

\* lower-case letters whose upper case is not one letter of the alphabet:
\* micro sign, sharp s, y with diaeresis
UpperSpecial ==
    ("U+00B5" :> <<"U+039C">>) @@ ("U+00DF" :> <<"S", "S">>) @@ ("U+00FF" :> <<"U+0178">>)

\* str.upper() of one character, as a text
UpperChar(c) ==
    IF c \in DOMAIN UpperOf THEN <<UpperOf[c]>>
    ELSE IF c \in DOMAIN UpperSpecial THEN UpperSpecial[c]
    ELSE <<c>>

RECURSIVE Upper(_)
\* str.upper
Upper(s) == IF s = <<>> THEN <<>> ELSE UpperChar(Head(s)) \o Upper(Tail(s))

\* str(v) of a string or a one-digit number, as an f-string formats it
Format(v) ==
    CASE v.type = "str" -> v.str
      [] v.type = "num" -> <<CHOOSE c \in DigitChars : DigitValue[c] = v.num>>
      [] v.type = "null" -> <<"N", "o", "n", "e">>
      [] v.type = "bool" -> IF v.bool THEN <<"T", "r", "u", "e">> ELSE <<"F", "a", "l", "s", "e">>
      [] OTHER -> <<"[", ".", ".", ".", "]">>

SupportedCompanies == {<<"B", "R", "I", "T", "A", "N", "N", "I", "A">>, <<"C", "O", "L", "G", "A", "T", "E">>, <<"D", "A", "B", "U", "R">>, <<"H", "U", "L">>, <<"I", "T", "C">>, <<"N", "E", "S", "T", "L", "E">>, <<"P", "&", "G">>}

S_DataEdited == <<"-", "f", "i", "n", "a", "n", "c", "i", "a", "l", "-", "d", "a", "t", "a", "-", "e", "d", "i", "t", "e", "d", ".", "j", "s", "o", "n">>

\* the file the handler writes: OUTPUT_FOLDER / dir / file
JsonFile(company, document_name, create_new) ==
    [dir |-> company \o <<"_">> \o Format(document_name),
     file |-> Format(document_name) \o (IF Truthy(create_new) THEN S_DataEdited ELSE S_Data)]

Response(success, status) == [success |-> success, status |-> status]

\* company_name in get_supported_companies()
Supported(company) == company \in SupportedCompanies

\* lines 286-327: the checks of the handler on a body that is a JSON object
\* with the given fields: the response of a request that is turned away, or
\* the file to write and the data to write to it
UpdateOutcome(fields) ==
    LET cn == Get(fields, "company_name", JStr(<<>>))
        document_name == Get(fields, "document_name", JStr(<<>>))
        req_financial_data == Get(fields, "financial_data", JList(0))
        create_new == Get(fields, "create_new", JBool(FALSE))
        company == Upper(cn.str)
    IN IF cn.type # "str" THEN [response |-> Response(FALSE, 500), write |-> FALSE]
       ELSE IF company = <<>> \/ ~Truthy(document_name)
            THEN [response |-> Response(FALSE, 400), write |-> FALSE]
       ELSE IF ~Truthy(req_financial_data)
            THEN [response |-> Response(FALSE, 400), write |-> FALSE]
       ELSE IF ~Supported(company)
            THEN [response |-> Response(FALSE, 400), write |-> FALSE]
       ELSE [response |-> Response(TRUE, 200), write |-> TRUE,
             path |-> JsonFile(company, document_name, create_new),
             content |-> [company_name |-> company, financial_data |-> req_financial_data]]

\* a JSON file whose json.dump raised after a part of the text was written
PartialJson == [kind |-> "partial"]

\* lines 277-320: the body is read and checked. "if not data" (line 280)
\* turns away null, {} and [] with 400; a list that is not empty has no get
\* (line 286, answered 500 by lines 342-347); a request that passes the
\* checks goes on to write its file, unless the output directory cannot be
\* made (500)
UpdateFinancialData ==
    /\ upd_pc = "received"
    /\ LET body == upd_request
           out == IF body.kind = "none" \/ body.fields = <<>>
                  THEN [response |-> Response(FALSE, 400), write |-> FALSE]
                  ELSE IF body.kind # "object"
                  THEN [response |-> Response(FALSE, 500), write |-> FALSE]
                  ELSE UpdateOutcome(body.fields)
       IN IF out.write
          THEN \E made \in BOOLEAN :
                  IF made
                  THEN upd_pc' = "open" /\ UNCHANGED upd_response
                  ELSE upd_pc' = "returned" /\ upd_response' = Response(FALSE, 500)
          ELSE upd_pc' = "returned" /\ upd_response' = out.response
    /\ UNCHANGED <<upd_request, json_store, core_vars, excel_vars, fm_vars>>

\* lines 322-331: open(json_file, 'w') creates the file or empties it; when
\* it raises, the file is as it was and the answer is 500 (lines 342-347)
UpdateOpen ==
    /\ upd_pc = "open"
    /\ \E opened \in BOOLEAN :
          IF opened
          THEN /\ json_store' = (UpdateOutcome(upd_request.fields).path :> EmptyJson)
                                     @@ json_store
               /\ upd_pc' = "dump"
               /\ UNCHANGED upd_response
          ELSE /\ upd_pc' = "returned"
               /\ upd_response' = Response(FALSE, 500)
               /\ UNCHANGED json_store
    /\ UNCHANGED <<upd_request, core_vars, excel_vars, fm_vars>>

\* lines 332-347: json.dump writes the data and the answer is 200; when it
\* raises (a string that utf-8 cannot encode, a full disk) the file stays
\* empty or holds a part of the text, and the answer is 500
UpdateDump ==
    /\ upd_pc = "dump"
    /\ LET out == UpdateOutcome(upd_request.fields)
       IN \E written \in {out.content, EmptyJson, PartialJson} :
             /\ json_store' = (out.path :> written) @@ json_store
             /\ upd_response' = IF written = out.content THEN out.response
                                ELSE Response(FALSE, 500)
    /\ upd_pc' = "returned"
    /\ UNCHANGED <<upd_request, core_vars, excel_vars, fm_vars>>

\* request bodies: the values a client can send for each key ("absent" leaves
\* the key out)
CompanyValues == {JStr(<<"B", "R", "I", "T", "A", "N", "N", "I", "A">>), JStr(<<"h", "u", "l">>), JStr(<<"I", "N", "V", "A", "L", "I", "D", "_", "C", "O", "M", "P", "A", "N", "Y">>),
                  JStr(<<>>), JStr(<<" ">>), JNull, JNum(7)}
DocumentValues == {JStr(<<"t", "e", "s", "t", "_", "d", "o", "c", "u", "m", "e", "n", "t">>), JStr(<<>>), JNull, JNum(7)}
FinancialDataValues == {JList(1), JList(0), JNull}
CreateNewValues == {JBool(FALSE), JBool(TRUE)}

Keys == {"company_name", "document_name", "financial_data", "create_new"}

ValuesOf(key) ==
    CASE key = "company_name" -> CompanyValues
      [] key = "document_name" -> DocumentValues
      [] key = "financial_data" -> FinancialDataValues
      [] OTHER -> CreateNewValues

AllValues == UNION {ValuesOf(k) : k \in Keys}

\* null, the lists [] and [7], and the objects over the keys
Bodies ==
    {[kind |-> "none", fields |-> <<>>], [kind |-> "list", fields |-> <<>>],
     [kind |-> "list", fields |-> <<JNum(7)>>]}
    \cup {[kind |-> "object", fields |-> f] :
            f \in UNION {{g \in [present -> AllValues] : \A k \in present : g[k] \in ValuesOf(k)} :
                            present \in SUBSET Keys}}

\* the file an earlier run of the parser left for the test document
ExistingFile ==
    JsonFile(<<"B", "R", "I", "T", "A", "N", "N", "I", "A">>, JStr(<<"t", "e", "s", "t", "_", "d", "o", "c", "u", "m", "e", "n", "t">>), JBool(FALSE))
        :> [company_name |-> <<"B", "R", "I", "T", "A", "N", "N", "I", "A">>, financial_data |-> JList(2)]

InitUpdate ==
    /\ ParseIdle
    /\ SelectIdle
    /\ PageIdle
    /\ ProcIdle
    /\ ExcelIdle
    /\ FmIdle
    /\ upd_request \in Bodies
    /\ upd_pc = "received"
    /\ upd_response = Response(FALSE, 0)
    /\ json_store \in {<<>>, ExistingFile}

NextUpdate ==
    \/ UpdateFinancialData
    \/ UpdateOpen
    \/ UpdateDump

SpecUpdate == InitUpdate /\ [][NextUpdate]_vars

-----------------------------------------------------------------------------
(* Properties of the update endpoint (checked under SpecUpdate)            *)

\* the request carries no usable value under the key
MissingOrEmpty(key) ==
    \/ upd_request.kind # "object"
    \/ key \notin DOMAIN upd_request.fields
    \/ ~Truthy(upd_request.fields[key])

\* the request's company_name is a supported company, in any letter case
NamesSupportedCompany ==
    /\ ~MissingOrEmpty("company_name")
    /\ upd_request.fields["company_name"].type = "str"
    /\ Upper(upd_request.fields["company_name"].str) \in SupportedCompanies

PassesAllChecks ==
    /\ NamesSupportedCompany
    /\ ~MissingOrEmpty("document_name")
    /\ ~MissingOrEmpty("financial_data")

\* C25: a request whose company_name is missing or unsupported, or whose
\* document_name or financial_data is missing or empty, is answered with
\* success false and status 400 and no file is written; only a request that
\* passes all of these checks writes the JSON file and returns success.
C25_InvalidRequestGets400 ==
    /\ []((upd_pc = "returned" /\ ~PassesAllChecks) => upd_response = Response(FALSE, 400))
    /\ [](upd_response.success => PassesAllChecks)
    /\ [][json_store' # json_store => PassesAllChecks]_vars

\* the body is a list that is not empty, or its company_name is no string
NoGetOrNoUpper ==
    \/ upd_request.kind = "list" /\ upd_request.fields # <<>>
    \/ /\ upd_request.kind = "object"
       /\ "company_name" \in DOMAIN upd_request.fields
       /\ upd_request.fields["company_name"].type # "str"

\* what the handler does on every request: a request that fails a check
\* writes nothing and gets status 400 or, when the body is a list that is not
\* empty or company_name is no string, status 500; a request that passes the
\* checks is answered 200 with its data in the file, or 500 with the file
\* as it was, empty or partly written
C25_InvalidRequestWritesNothing ==
    /\ []((upd_pc = "returned" /\ ~PassesAllChecks) =>
             /\ ~upd_response.success
             /\ upd_response.status = IF NoGetOrNoUpper THEN 500 ELSE 400)
    /\ []((upd_pc = "returned" /\ PassesAllChecks) =>
             LET out == UpdateOutcome(upd_request.fields)
             IN \/ /\ upd_response = Response(TRUE, 200)
                   /\ json_store[out.path] = out.content
                \/ /\ upd_response = Response(FALSE, 500)
                   /\ out.path \in DOMAIN json_store =>
                          json_store[out.path] \in {EmptyJson, PartialJson} \cup
                              {ExistingFile[x] : x \in DOMAIN ExistingFile})
    /\ [](upd_response.success => PassesAllChecks)
    /\ [][json_store' # json_store => PassesAllChecks]_vars

-----------------------------------------------------------------------------
(* Failure values of parse_html_table_to_json (checked under Spec)          *)

\* the call was made with one of the input errors: a company name that is
\* not known, a company without configuration, a file without a table element
InputError ==
    \/ company_name \notin DOMAIN CompanyMapping
    \/ ~TruthyDict(config, CompanyMapping[company_name])
    \/ ~html.has_table

\* C21: for an unknown company name, a company without configuration, or a
\* file with no table element, parse_html_table_to_json returns None and no
\* partial record; it does not raise.
C21_InputErrorReturnsNone ==
    (InputError /\ parse_pc # "start") =>
        /\ parse_pc = "returned_none"
        /\ financial_data = <<>>

\* what holds of the input errors: None is returned, with no partial record,
\* unless the company's layout name is undefined, which raises before the
\* file is read
C21_InputErrorReturnsNoneOrLayoutRaises ==
    (InputError /\ parse_pc # "start") =>
        /\ financial_data = <<>>
        /\ IF BeginRaises(company_name, config)
           THEN parse_pc = "raised" /\ html.has_table = FALSE
           ELSE parse_pc = "returned_none"

-----------------------------------------------------------------------------
(* process_pdf_document: the whole call, from load_config to the result    *)

\* line 363: max_retries = 2
MaxRetries == 2

\* the PDFs a call can be given: the pages find_target_page reads, and the
\* tables the converter finds on each page; PdfReader raises on "broken"
PdfFiles ==
    [ results  |-> [readable |-> TRUE,
                    pages |-> <<"notes", "standalone", "consolidated">>,
                    tables |-> << <<"profit">>, <<"sales">>, <<>> >>],
      group    |-> [readable |-> TRUE,
                    pages |-> <<"consolidated", "notes">>,
                    tables |-> << <<"profit">>, <<>> >>],
      cover    |-> [readable |-> TRUE,
                    pages |-> <<"cover">>,
                    tables |-> << <<"profit", "sales">> >>],
      scanned  |-> [readable |-> TRUE,
                    pages |-> <<"no_text">>,
                    tables |-> << <<>> >>],
      broken   |-> [readable |-> FALSE, pages |-> <<>>, tables |-> <<>>] ]

PdfPool == DOMAIN PdfFiles

RECURSIVE Flatten(_)
Flatten(lists) == IF lists = <<>> THEN <<>> ELSE Head(lists) \o Flatten(Tail(lists))

\* lines 366-372: conv_res.document.tables of a conversion that succeeds;
\* page_range 0 stands for None, n for the range (n, n)
TablesOf(pdf, page_range) ==
    IF page_range = 0 THEN Flatten(pdf.tables) ELSE pdf.tables[page_range]

\* the layouts of a configuration that keeps to the schema
SchemaLayouts == [name \in {"standard", "alt"} |-> ColumnLayouts[name]]

\* the configuration files load_config can be given, by name: one that keeps
\* to the schema, one whose company names an undefined layout, one whose
\* company uses a layout without the label ordinal, and one with a field that
\* has neither tr_number nor labels
DocConfigs ==
    [ good        |-> ("hul" :> ProcessCompanyConfig) @@ ("column_layouts" :> SchemaLayouts),
      no_layout   |-> ("hul" :> (("column_layout" :> "missing") @@ ProcessCompanyConfig))
                          @@ ("column_layouts" :> SchemaLayouts),
      bare_layout |-> FullConfig(("column_layout" :> "bare") @@ ProcessCompanyConfig),
      no_labels   |-> ("hul" :> ("financial_data" :> <<ProcessItems[1], "key" :> FieldKeys[3]>>))
                          @@ ("column_layouts" :> SchemaLayouts) ]

ConfigPool == DOMAIN DocConfigs

DocCompanies == {"HUL", "ITC", "ACME"}

\* the one call that is followed
DocRequests == {"call"}

\* what a finished call has returned and selected (lines 459-475): the
\* result of a call that failed has no processing_time
Result(p) ==
    [target_page |-> p.target_page, retry_count |-> p.retry_count, tables |-> p.tables,
     selected_html |-> p.selected_html, selected_table |-> p.selected_table,
     selection_method |-> p.selection_method, json_result |-> p.json_result,
     success |-> p.success,
     processing_time |-> IF p.success THEN p.doc_conversion_secs ELSE <<>>]

\* the locals, and the arguments, of a call that has not begun
DocLocals(pdf, cname, cfg, prefer, fuzzy) ==
    [pc |-> "load", tables |-> <<>>, table_ix |-> 0, doc_conversion_secs |-> <<>>,
     best_score |-> InitialBestScore, best_index |-> 0,
     selected_html |-> 0, selected_table |-> 1, selection_method |-> "default",
     json_result |-> NoRecord, success |-> FALSE, scores |-> 0,
     pdf |-> pdf, company_name |-> cname, config |-> cfg,
     prefer_standalone |-> prefer, use_fuzzy_matching |-> fuzzy,
     target_page |-> NotFound, page_range |-> 0, retry_count |-> 0, attempts |-> <<>>,
     run |-> 1,
     previous |-> [target_page |-> NotFound, retry_count |-> 0, tables |-> <<>>,
                   selected_html |-> 0, selected_table |-> 1,
                   selection_method |-> "default", json_result |-> NoRecord,
                   success |-> FALSE, processing_time |-> <<>>]]

\* lines 468-475: the except branch
Failed(p) == [p EXCEPT !.pc = "returned", !.success = FALSE, !.json_result = NoRecord]

\* a page range that follows the prefer_standalone argument
InitialPageRange_PreferStandalone(p, target) ==
    IF target.found /\ p.prefer_standalone THEN target.index + 1 ELSE 0

\* lines 323-327: the page range of the first attempt, for the arguments and
\* locals p of the call and the page find_target_page returned
InitialPageRange(p, target) ==
    IF target.found THEN target.index + 1 ELSE 0

\* a retry loop that allows one more attempt
RetryExhausted_OneMore(retry_count) == retry_count > MaxRetries + 1

\* line 376: if retry_count > max_retries: raise
RetryExhausted(retry_count) == retry_count > MaxRetries

\* a retry that keeps the page range
FallbackRange_Keep(page_range) == page_range

\* lines 380-383: the page range after a failed attempt
FallbackRange(page_range) == 0

\* lines 478-484 (called by app.py at start-up): json.load of the file
LoadConfig(r) ==
    /\ proc[r].pc = "load"
    /\ proc' = [proc EXCEPT ![r].pc = "find"]
    /\ UNCHANGED <<files, parse_vars, select_vars, page_vars, ext_vars>>

\* lines 316-321, 43: find_target_page is called; PdfReader raises on a file
\* that is no PDF
CallFindTargetPage(r) ==
    /\ proc[r].pc = "find"
    /\ LET pdf == PdfFiles[proc[r].pdf]
       IN IF pdf.readable
          THEN /\ proc' = [proc EXCEPT ![r].pc = "finding"]
               /\ pages' = pdf.pages
               /\ page_pc' = "loop"
               /\ page_index' = 0
               /\ target_page' = NotFound
               /\ page_rule' = <<>>
          ELSE /\ proc' = [proc EXCEPT ![r] = Failed(proc[r])]
               /\ UNCHANGED page_vars
    /\ UNCHANGED <<files, parse_vars, select_vars, ext_vars>>

\* lines 321-363: find_target_page has returned
FindReturned(r) ==
    /\ proc[r].pc = "finding"
    /\ page_pc = "returned"
    /\ proc' = [proc EXCEPT ![r] =
           [proc[r] EXCEPT !.pc = "convert", !.target_page = target_page,
                           !.page_range = InitialPageRange(proc[r], target_page),
                           !.retry_count = 0]]
    /\ UNCHANGED <<files, parse_vars, select_vars, page_vars, ext_vars>>

\* lines 365-391, 433: one iteration of the retry loop; the conversion
\* returns a result with the time it measured, or raises (secs = <<>>)
ConvertAttempt(r) ==
    /\ proc[r].pc = "convert"
    /\ proc[r].retry_count <= MaxRetries
    /\ \E secs \in ConversionTimes \cup {<<>>} :
          LET p == proc[r]
              tried == Append(p.attempts, p.page_range)
          IN proc' = [proc EXCEPT ![r] =
                 IF secs # <<>>
                 THEN [p EXCEPT !.pc = "export", !.attempts = tried, !.table_ix = 0,
                                !.tables = TablesOf(PdfFiles[p.pdf], p.page_range),
                                !.doc_conversion_secs = secs]
                 ELSE IF RetryExhausted(p.retry_count + 1)
                 THEN Failed([p EXCEPT !.attempts = tried,
                                       !.retry_count = p.retry_count + 1])
                 ELSE [p EXCEPT !.attempts = tried, !.retry_count = p.retry_count + 1,
                                !.page_range = FallbackRange(p.page_range)]]
    /\ UNCHANGED <<files, parse_vars, select_vars, page_vars, ext_vars>>

\* lines 436-440, 459-466: parse_html_table_to_json is called on the selected
\* file, if there is one; without one the call returns
StartParse(r) ==
    /\ proc[r].pc = "parse"
    /\ LET sel == proc[r].selected_html
       IN IF sel # 0 /\ sel \in DOMAIN files
          THEN /\ proc' = [proc EXCEPT ![r].pc = "parsing"]
               /\ company_name' = proc[r].company_name
               /\ config' = DocConfigs[proc[r].config]
               /\ html' = IF HasTable(files[sel])
                          THEN [has_table |-> TRUE, rows |-> DocTables[files[sel]]]
                          ELSE [has_table |-> FALSE, rows |-> <<>>]
               /\ use_fuzzy_matching' = proc[r].use_fuzzy_matching
               /\ parse_pc' = "start"
               /\ rows' = <<>>
               /\ item_ix' = 0
               /\ column_layout' = "standard"
               /\ financial_data' = <<>>
               /\ extraction_method' = "tr_number"
               /\ matched_rows_count' = 0
               /\ fuzzy_matched_count' = 0
               /\ resolution' = <<>>
          ELSE /\ proc' = [proc EXCEPT ![r] =
                      [proc[r] EXCEPT !.pc = "returned", !.success = TRUE,
                                      !.json_result = NoRecord]]
               /\ UNCHANGED parse_vars
    /\ UNCHANGED <<files, select_vars, page_vars, ext_vars>>

\* lines 438-451, 459-475: parse_html_table_to_json has returned a record or
\* None, or has raised
FinishParse(r) ==
    /\ proc[r].pc = "parsing"
    /\ parse_pc \in {"returned", "returned_none", "raised"}
    /\ proc' = [proc EXCEPT ![r] =
           IF parse_pc = "raised" THEN Failed(proc[r])
           ELSE AfterParse(proc[r],
                           IF parse_pc = "returned"
                           THEN [present |-> TRUE,
                                 company_name |-> company_name,
                                 extraction_method |-> extraction_method,
                                 financial_data |-> financial_data]
                           ELSE NoRecord)]
    /\ UNCHANGED <<files, parse_vars, select_vars, page_vars, ext_vars>>

\* app.py lines 156-181: the same upload is processed again with the other
\* prefer_standalone option, into the same output directory
Reinvoke(r) ==
    /\ proc[r].pc = "returned"
    /\ proc[r].run = 1
    /\ LET p == proc[r]
       IN proc' = [proc EXCEPT ![r] =
              [DocLocals(p.pdf, p.company_name, p.config, ~p.prefer_standalone,
                         p.use_fuzzy_matching)
                  EXCEPT !.pc = "find", !.run = 2, !.previous = Result(p)]]
    /\ UNCHANGED <<files, parse_vars, select_vars, page_vars, ext_vars>>

InitDocument ==
    /\ ParseIdle
    /\ SelectIdle
    /\ PageIdle
    /\ ExtIdle
    /\ files = <<>>
    /\ \E pdf \in PdfPool, cname \in DocCompanies, cfg \in ConfigPool,
          prefer \in BOOLEAN, fuzzy \in BOOLEAN :
          proc = [r \in DocRequests |-> DocLocals(pdf, cname, cfg, prefer, fuzzy)]

NextDocument ==
    \/ \E r \in DocRequests :
          \/ LoadConfig(r)
          \/ CallFindTargetPage(r)
          \/ FindReturned(r)
          \/ ConvertAttempt(r)
          \/ ExportOpen(r)
          \/ ExportWrite(r)
          \/ ChooseSelection(r)
          \/ ScanTable(r)
          \/ ScanReturn(r)
          \/ StartParse(r)
          \/ FinishParse(r)
          \/ OpenJson(r)
          \/ DumpJson(r)
          \/ Reinvoke(r)
    \/ PageVisit
    \/ PageReturnNone
    \/ ParseBegin
    \/ ProcessItem
    \/ ParseReturn

SpecDocument == InitDocument /\ [][NextDocument]_vars

\* a call that is in its retry loop keeps running
LiveDocument == SpecDocument /\ WF_vars(\E r \in DocRequests : ConvertAttempt(r))

-----------------------------------------------------------------------------
(* Properties of the whole call (checked under SpecDocument, LiveDocument)  *)

\* the page range of the i-th conversion attempt of a call is the whole document
WholeDocument(p, i) == p.attempts[i] = 0

\* the last conversion attempt of the call produced a result
Converted(p) == Len(p.attempts) = p.retry_count + 1

\* C26: the retry loop makes at most 3 convert attempts, makes no attempt
\* after one that produced a result, ends in a result with success false when
\* all 3 attempts fail, and always terminates.
C26_RetryLoopTerminates ==
    /\ [](\A r \in DOMAIN proc :
            LET p == proc[r]
            IN /\ Len(p.attempts) <= 3
               /\ Len(p.attempts) <= MaxRetries + 1
               /\ Len(p.attempts) \in {p.retry_count, p.retry_count + 1}
               /\ p.pc = "convert" => ~Converted(p)
               /\ Converted(p) => p.retry_count <= MaxRetries
               /\ p.retry_count = 3 =>
                     /\ p.pc = "returned"
                     /\ ~p.success
                     /\ ~p.json_result.present)
    /\ [][\A r \in DOMAIN proc :
            proc'[r].attempts # proc[r].attempts =>
                \/ proc'[r].attempts = <<>>
                \/ /\ proc[r].pc = "convert"
                   /\ ~Converted(proc[r])
                   /\ Len(proc'[r].attempts) = Len(proc[r].attempts) + 1]_vars
    /\ \A r \in DocRequests :
            (proc[r].pc = "convert") ~> (proc[r].pc \in {"export", "returned"})

\* three attempts have failed and the call has returned success false
C26_Witness ==
    \E r \in DOMAIN proc :
        /\ proc[r].pc = "returned"
        /\ Len(proc[r].attempts) = 3
        /\ proc[r].retry_count = 3
        /\ ~proc[r].success

\* C27: the first conversion attempt converts only the page find_target_page
\* returned, or the whole document when it returned None; every attempt after
\* a failed one converts the whole document; the tables of the call are those
\* of the range of the attempt that succeeded.
C27_PageRangeOfAttempts ==
    \A r \in DOMAIN proc :
        LET p == proc[r]
        IN /\ p.pc \in {"convert", "export", "export_html", "scan", "parse", "parsing", "save", "dump"} =>
                 p.target_page = target_page
           /\ p.attempts # <<>> =>
                 p.attempts[1] = IF p.target_page.found THEN p.target_page.index + 1 ELSE 0
           /\ \A i \in 2..Len(p.attempts) : WholeDocument(p, i)
           /\ p.pc \in {"export", "export_html", "scan", "parse", "parsing", "save", "dump"} =>
                 p.tables = TablesOf(PdfFiles[p.pdf], p.attempts[Len(p.attempts)])

\* the conversion of the target page failed and the whole document was
\* converted instead
C27_Witness ==
    \E r \in DOMAIN proc :
        /\ proc[r].pc = "export"
        /\ proc[r].target_page = [found |-> TRUE, index |-> 1]
        /\ proc[r].attempts = <<2, 0, 0>>
        /\ proc[r].tables = <<"profit", "sales">>

\* a result without the time the converter measured: processing_time of the
\* result and metadata.processing_time_seconds of its record
Untimed(res) ==
    [res EXCEPT !.processing_time = <<>>,
                !.json_result = IF @.present
                                THEN [@ EXCEPT !.metadata.processing_time_seconds = <<>>]
                                ELSE @]

BreaksSchema(cfg) ==
    \/ \E k \in DOMAIN cfg \ {"column_layouts"} :
          \/ DictGet(cfg[k], "column_layout", "standard") \notin DOMAIN cfg["column_layouts"]
          \/ \E i \in DOMAIN cfg[k]["financial_data"] :
                LET item == cfg[k]["financial_data"][i]
                IN "tr_number" \notin DOMAIN item /\ "labels" \notin DOMAIN item
    \/ \E name \in DOMAIN cfg["column_layouts"] :
          LET layout == cfg["column_layouts"][name]
          IN "label" \notin DOMAIN layout \/ DOMAIN layout \ {"label"} = {}

\* C22: a configuration that breaks the schema is rejected when it is loaded:
\* no call gets past load_config with it.
C22_SchemaViolationRejectedAtLoad ==
    \A r \in DOMAIN proc :
        BreaksSchema(DocConfigs[proc[r].config]) => proc[r].pc = "load"

\* what the code does with the schema violations: they pass load_config; an
\* undefined layout name and a field without labels raise KeyError while the
\* table is parsed, and a layout without label ordinal is used with ordinal 2
C22_SchemaViolationFoundAtResolution ==
    \A r \in DOMAIN proc :
        LET p == proc[r]
        IN /\ (p.pc = "parsing" /\ parse_pc = "raised") => p.config \in {"no_layout", "no_labels"}
           /\ (p.pc = "parsing" /\ parse_pc = "returned") => p.config \in {"good", "bare_layout"}
           /\ (p.pc = "parsing" /\ parse_pc = "raised" /\ p.config = "no_labels") => item_ix = 1

====
